---------------------------- MODULE Spec2Model ----------------------------
(***************************************************************************)
(* CodeMate (src/extension.js): the editor-event state machine of the      *)
(* extension -- active-editor change, document change, selection change,   *)
(* the commands -- together with the line-based function detector, the     *)
(* brace-counting body extractor and the complexity highlight pass.        *)
(*                                                                         *)
(* A text is a sequence of one-character strings.  A document is a record  *)
(* of its languageId, its fileName and its lines (a sequence of texts).    *)
(* Line and column numbers are zero-based as in the editor API; TLA+       *)
(* sequences are one-based, so line i of a document is lines[i + 1].       *)
(***************************************************************************)
EXTENDS Integers, Sequences, FiniteSets, TLC

(***************************************************************************)
(* Texts                                                                   *)
(***************************************************************************)
SP == " "

WordChars ==
    { "a", "b", "c", "d", "e", "f", "g", "h", "i", "j", "k", "l", "m",
      "n", "o", "p", "q", "r", "s", "t", "u", "v", "w", "x", "y", "z",
      "_", "0", "1" }

\* \s of the regular expressions and the whitespace String.trim() strips
IsSpace(c) == c = SP

\* \w of the regular expressions
IsWord(c) == c \in WordChars

Spaces(n) == [k \in 1..n |-> SP]

MinOf(S) == CHOOSE x \in S : \A y \in S : x <= y

MaxOf(S) == CHOOSE x \in S : \A y \in S : x >= y

\* String.prototype.trim
Trim(s) ==
    LET ns == { k \in 1..Len(s) : ~IsSpace(s[k]) }
    IN  IF ns = {} THEN << >> ELSE SubSeq(s, MinOf(ns), MaxOf(ns))

\* String.prototype.startsWith
StartsWith(s, w) ==
    /\ Len(w) <= Len(s)
    /\ \A k \in 1..Len(w) : s[k] = w[k]

\* String.prototype.endsWith
EndsWith(s, w) ==
    /\ Len(w) <= Len(s)
    /\ \A k \in 1..Len(w) : s[Len(s) - Len(w) + k] = w[k]

\* String.prototype.includes
Includes(s, w) ==
    \E p \in 0..(Len(s) - Len(w)) : \A k \in 1..Len(w) : s[p + k] = w[k]

\* String.prototype.indexOf: the first offset of w in s, or -1
IndexOf(s, w) ==
    LET ps == { p \in 0..(Len(s) - Len(w)) : \A k \in 1..Len(w) : s[p + k] = w[k] }
    IN  IF ps = {} THEN -1 ELSE MinOf(ps)

(***************************************************************************)
(* Regular-expression pieces.  A position p is the number of characters    *)
(* consumed so far (0..Len(s)); -1 is "no match".  Every piece is greedy,  *)
(* and in the four patterns below no piece can give a character back to    *)
(* the piece after it, so one pass decides the match.                      *)
(***************************************************************************)
NoMatch == -1

\* a literal word w at position p
Lit(s, p, w) ==
    IF p >= 0 /\ p + Len(w) <= Len(s) /\ \A k \in 1..Len(w) : s[p + k] = w[k]
    THEN p + Len(w)
    ELSE NoMatch

\* \s*
Ws0(s, p) ==
    IF p < 0 THEN NoMatch
    ELSE LET ns == { k \in (p + 1)..Len(s) : ~IsSpace(s[k]) }
         IN  IF ns = {} THEN Len(s) ELSE MinOf(ns) - 1

\* \s+
Ws1(s, p) == IF p >= 0 /\ Ws0(s, p) > p THEN Ws0(s, p) ELSE NoMatch

\* \w+
Word1(s, p) ==
    IF p < 0 THEN NoMatch
    ELSE LET ns == { k \in (p + 1)..Len(s) : ~IsWord(s[k]) }
             e  == IF ns = {} THEN Len(s) ELSE MinOf(ns) - 1
         IN  IF e > p THEN e ELSE NoMatch

\* [^)]*\)  -- up to and including the first closing parenthesis
ToCloseParen(s, p) ==
    IF p < 0 THEN NoMatch
    ELSE LET cs == { k \in (p + 1)..Len(s) : s[k] = ")" }
         IN  IF cs = {} THEN NoMatch ELSE MinOf(cs)

\* (?: w \s+ )?  taken (the regex engine's first choice)
OptTaken1(s, p, w) == Ws1(s, Lit(s, p, w))

\* (?: w \s* )?  taken
OptTaken0(s, p, w) == Ws0(s, Lit(s, p, w))

kwExport == << "e", "x", "p", "o", "r", "t" >>

kwAsync == << "a", "s", "y", "n", "c" >>

kwFunction == << "f", "u", "n", "c", "t", "i", "o", "n" >>

kwConst == << "c", "o", "n", "s", "t" >>

NoDefinition == [found |-> FALSE, name |-> << >>, index |-> -1]

Definition(s, from, to) == [found |-> TRUE, name |-> SubSeq(s, from + 1, to), index |-> 0]

\* Prefixes for patterns that are not anchored: a match may also start right
\* after the first `//` of the line
PrefixesAnywhere(s, asyncToo) ==
    LET e  == OptTaken1(s, 0, kwExport)
        ea == OptTaken1(s, e, kwAsync)
        a  == OptTaken1(s, 0, kwAsync)
        sl == IF IndexOf(s, << "/", "/" >>) >= 0 THEN IndexOf(s, << "/", "/" >>) + 2
              ELSE NoMatch
    IN  IF asyncToo THEN << ea, e, a, 0, sl >> ELSE << e, 0, sl >>

\* The start positions after the optional `export\s+` and `async\s+` groups,
\* in the order the regex engine tries them (group taken before group skipped).
Prefixes(s, asyncToo) ==
    LET e  == OptTaken1(s, 0, kwExport)
        ea == OptTaken1(s, e, kwAsync)
        a  == OptTaken1(s, 0, kwAsync)
    IN  IF asyncToo THEN << ea, e, a, 0 >> ELSE << e, 0 >>

\* the first of the matches ms that is one, in the order the engine tries them
FirstFound(ms) ==
    LET ok == { k \in 1..Len(ms) : ms[k].found }
    IN  IF ok = {} THEN NoDefinition ELSE ms[MinOf(ok)]

\* the first alternative of `starts` from which `Rest` matches
FirstMatch(starts, Rest(_)) ==
    FirstFound([k \in 1..Len(starts) |->
                   IF starts[k] >= 0 THEN Rest(starts[k]) ELSE NoDefinition])

\* /^(?:export\s+)?(?:async\s+)?function\s+(\w+)\s*\(/
Pattern1(s) ==
    LET Rest(p) ==
            LET b == Ws1(s, Lit(s, p, kwFunction))
                c == Word1(s, b)
                e == Lit(s, Ws0(s, c), << "(" >>)
            IN  IF e >= 0 THEN Definition(s, b, c) ELSE NoDefinition
    IN  FirstMatch(Prefixes(s, TRUE), Rest)

\* const\s+(\w+)\s*=\s*   -- the common head of patterns 2 and 3
ConstHead(s, p) ==
    LET b == Ws1(s, Lit(s, p, kwConst))
        c == Word1(s, b)
        e == Ws0(s, Lit(s, Ws0(s, c), << "=" >>))
    IN  [from |-> b, to |-> c, next |-> e]

\* /^(?:export\s+)?const\s+(\w+)\s*=\s*(?:async\s*)?\([^)]*\)\s*=>/
Pattern2(s) ==
    LET Rest(p) ==
            LET h == ConstHead(s, p)
                ArrowTail(q) == Lit(s, Ws0(s, ToCloseParen(s, Lit(s, q, << "(" >>))), << "=", ">" >>)
                withAsync == ArrowTail(OptTaken0(s, h.next, kwAsync))
                without   == ArrowTail(h.next)
            IN  IF withAsync >= 0 \/ without >= 0
                THEN Definition(s, h.from, h.to)
                ELSE NoDefinition
    IN  FirstMatch(Prefixes(s, FALSE), Rest)

\* /^(?:export\s+)?const\s+(\w+)\s*=\s*function\s*\(/
Pattern3(s) ==
    LET Rest(p) ==
            LET h == ConstHead(s, p)
                e == Lit(s, Ws0(s, Lit(s, h.next, kwFunction)), << "(" >>)
            IN  IF e >= 0 THEN Definition(s, h.from, h.to) ELSE NoDefinition
    IN  FirstMatch(Prefixes(s, FALSE), Rest)

\* /^(?:export\s+)?(?:async\s+)?(\w+)\s*\([^)]*\)\s*{/
Pattern4(s) ==
    LET Rest(p) ==
            LET c == Word1(s, p)
                e == Lit(s, Ws0(s, ToCloseParen(s, Lit(s, Ws0(s, c), << "(" >>))), << "{" >>)
            IN  IF e >= 0 THEN Definition(s, p, c) ELSE NoDefinition
    IN  FirstMatch(Prefixes(s, TRUE), Rest)

\* findFunctionDefinition(text): the first pattern, in order, that matches and
\* whose match starts before the first `//` of the line (or the line has none)
findFunctionDefinition(text) ==
    LET commentIndex == IndexOf(text, << "/", "/" >>)
        Accept(m) == IF m.found /\ (commentIndex = -1 \/ m.index < commentIndex)
                     THEN m ELSE NoDefinition
    IN  FirstFound(<< Accept(Pattern1(text)), Accept(Pattern2(text)),
                      Accept(Pattern3(text)), Accept(Pattern4(text)) >>)

(***************************************************************************)
(* Documents                                                               *)
(***************************************************************************)
NoEditor == "none"

Placeholder == 50

\* " ".repeat(50)
placeholder == Spaces(Placeholder)

lnFunF == kwFunction \o << " ", "f", "(", ")", "{" >>

lnArrowG == kwConst \o << " ", "g", "=", "(", ")", "=", ">", "{" >>

lnMethodH == << "h", "(", ")", "{" >>

lnFunFOneLine == kwFunction \o << " ", "f", "(", ")", "{", "}" >>

\* a line that ends in blanks
lnTrailing == lnFunFOneLine \o Spaces(7)

lnClose == << "}" >>

lnStmt == << "x" >>

lnEmpty == << >>

lnComment == << "/", "/", "c" >>

lnIndentedComment == << " ", "/", "/", "c" >>

extJs == << ".", "j", "s" >>

extTs == << ".", "t", "s" >>

extPy == << ".", "p", "y" >>

dotTest == << ".", "t", "e", "s", "t", "." >>

dotSpec == << ".", "s", "p", "e", "c", "." >>

\* The documents the editor can show: a long and a short source file, a
\* generated test file and a file of another language.
Docs == { "a", "b", "c", "d" }

languageId(d) ==
    CASE d = "a" -> "javascript"
      [] d = "b" -> "javascript"
      [] d = "c" -> "python"
      [] d = "d" -> "typescript"

fileName(d) ==
    CASE d = "a" -> << "a" >> \o extJs
      [] d = "b" -> << "b" >> \o dotTest \o << "j", "s" >>
      [] d = "c" -> << "c" >> \o extPy
      [] d = "d" -> << "d" >> \o extTs

InitialLines(d) ==
    CASE d = "a" -> << lnFunF, lnClose, lnEmpty, lnArrowG, lnClose, lnEmpty,
                       lnEmpty, lnEmpty, lnEmpty, lnEmpty, lnStmt >>
      [] d = "b" -> << lnTrailing, lnStmt >>
      [] d = "c" -> << lnStmt >>
      [] d = "d" -> << lnMethodH, lnClose >>

\* isValidSourceFile(document)
isValidSourceFile(d) ==
    LET isJavaScript == languageId(d) = "javascript" \/ languageId(d) = "typescript"
        isTestFile   == Includes(fileName(d), dotTest) \/ Includes(fileName(d), dotSpec)
    IN  isJavaScript /\ ~isTestFile

(***************************************************************************)
(* A JavaScript Map is a sequence of [key, value] entries in insertion     *)
(* order; set() on a present key replaces the value in place.              *)
(***************************************************************************)
EmptyMap == << >>

MapKeys(m) == { m[k].key : k \in 1..Len(m) }

MapHas(m, key) == key \in MapKeys(m)

MapGet(m, key) == m[CHOOSE k \in 1..Len(m) : m[k].key = key].value

\* as MapSet, keeping the value a key already has
MapSetKeepingFirst(m, key, value) ==
    IF MapHas(m, key)
    THEN m
    ELSE Append(m, [key |-> key, value |-> value])

\* map.set(key, value)
MapSet(m, key, value) ==
    IF MapHas(m, key)
    THEN [k \in 1..Len(m) |-> IF m[k].key = key THEN [key |-> key, value |-> value] ELSE m[k]]
    ELSE Append(m, [key |-> key, value |-> value])

MapSize(m) == Len(m)

\* new vscode.Range(startLine, startCharacter, endLine, endCharacter)
Range(sl, sc, el, ec) == [sl |-> sl, sc |-> sc, el |-> el, ec |-> ec]

\* Range.contains(position)
RangeContains(r, line, character) ==
    /\ (line > r.sl \/ (line = r.sl /\ character >= r.sc))
    /\ (line < r.el \/ (line = r.el /\ character <= r.ec))

(***************************************************************************)
(* detectFunctions(document): the rebuilt functionRanges and the padding   *)
(* insertions the pass collects, one per detected line that does not end   *)
(* with the placeholder.                                                   *)
(***************************************************************************)
\* DetectMatch numbering the lines from one
DetectMatchOneBased(text, trimmedLine, i, acc, match) ==
    IF ~match.found THEN acc
    ELSE [ranges |-> MapSet(acc.ranges, match.name, Range(i + 1, 0, i + 1, Len(trimmedLine))),
          edits  |-> IF EndsWith(text, placeholder)
                     THEN acc.edits
                     ELSE Append(acc.edits, [line |-> i, character |-> Len(text)])]

\* DetectMatch with the range running to the end of the untrimmed line
DetectMatchUntrimmed(text, trimmedLine, i, acc, match) ==
    IF ~match.found THEN acc
    ELSE [ranges |-> MapSet(acc.ranges, match.name, Range(i, 0, i, Len(text))),
          edits  |-> IF EndsWith(text, placeholder)
                     THEN acc.edits
                     ELSE Append(acc.edits, [line |-> i, character |-> Len(text)])]

\* DetectMatch without the look at the end of the line
DetectMatchUnchecked(text, trimmedLine, i, acc, match) ==
    IF ~match.found THEN acc
    ELSE [ranges |-> MapSet(acc.ranges, match.name, Range(i, 0, i, Len(trimmedLine))),
          edits  |-> Append(acc.edits, [line |-> i, character |-> Len(text)])]

\* if (match) { ... }: the entry and the edit a matching line adds
DetectMatch(text, trimmedLine, i, acc, match) ==
    IF ~match.found THEN acc
    ELSE [ranges |-> MapSet(acc.ranges, match.name, Range(i, 0, i, Len(trimmedLine))),
          edits  |-> IF EndsWith(text, placeholder)
                     THEN acc.edits
                     ELSE Append(acc.edits, [line |-> i, character |-> Len(text)])]

DetectLine(lines, i, acc) ==
    LET text        == lines[i + 1]
        trimmedLine == Trim(text)
    IN  IF trimmedLine = << >>
           \/ StartsWith(trimmedLine, << "/", "/" >>)
           \/ StartsWith(trimmedLine, << "/", "*" >>)
        THEN acc
        ELSE DetectMatch(text, trimmedLine, i, acc, findFunctionDefinition(text))

RECURSIVE DetectFrom(_, _, _)
DetectFrom(lines, i, acc) ==
    IF i >= Len(lines) THEN acc
    ELSE DetectFrom(lines, i + 1, DetectLine(lines, i, acc))

detectFunctions(lines) == DetectFrom(lines, 0, [ranges |-> EmptyMap, edits |-> << >>])

(***************************************************************************)
(* extractFunctionCode(startLine) on the lines of the active document:     *)
(* the lines from startLine through the first line after which the brace   *)
(* count is zero with an opening brace seen, or null.                      *)
(***************************************************************************)
\* a string-or-null result
Null == [null |-> TRUE, text |-> << >>]

Str(t) == [null |-> FALSE, text |-> t]

\* JavaScript truthiness of a string-or-null: neither null nor ""
Truthy(v) == ~v.null /\ v.text # << >>

\* the for-of loop over one line's characters
RECURSIVE CountBraces(_, _, _)
CountBraces(text, k, acc) ==
    IF k > Len(text) THEN acc
    ELSE CountBraces(text, k + 1,
            IF text[k] = "{" THEN [braceCount |-> acc.braceCount + 1, foundOpening |-> TRUE]
            ELSE IF text[k] = "}" THEN [acc EXCEPT !.braceCount = @ - 1]
            ELSE acc)

\* Array.prototype.join('\n')
RECURSIVE JoinLines(_)
JoinLines(code) ==
    IF Len(code) = 0 THEN << >>
    ELSE IF Len(code) = 1 THEN code[1]
    ELSE code[1] \o << "\n" >> \o JoinLines(Tail(code))

RECURSIVE ExtractFrom(_, _, _, _)
ExtractFrom(lines, line, acc, code) ==
    IF line >= Len(lines) THEN Null
    ELSE LET text == lines[line + 1]
             c    == CountBraces(text, 1, acc)
         IN  IF c.foundOpening /\ c.braceCount = 0
             THEN Str(JoinLines(Append(code, text)))
             ELSE ExtractFrom(lines, line + 1, c, Append(code, text))

extractFunctionCode(lines, startLine) ==
    ExtractFrom(lines, startLine, [braceCount |-> 0, foundOpening |-> FALSE], << >>)

(***************************************************************************)
(* The metrics engine (escomplex.analyzeModule) is an external             *)
(* collaborator: for a given text it throws, returns a report without a    *)
(* methods list, or returns methods.  A method is                          *)
(* [name, cyclomatic, lineStart, lineEnd]; lineStart = NaL stands for a     *)
(* line span that is not a number.                                         *)
(***************************************************************************)
NaL == -1000

Method(name, cyclomatic, lineStart, lineEnd) ==
    [name |-> name, cyclomatic |-> cyclomatic, lineStart |-> lineStart, lineEnd |-> lineEnd]

EngineThrows == [kind |-> "throws", methods |-> << >>]

EngineNoMethods == [kind |-> "nomethods", methods |-> << >>]

EngineMethods(ms) == [kind |-> "methods", methods |-> ms]

\* The reports the engine may give for a document of n lines.
EngineResults(n) ==
    IF n <= 10
    THEN { EngineMethods(<< >>) }
    ELSE { EngineThrows,
           EngineMethods(<< Method(<< "f" >>, 12, 1, 2), Method(<< "g" >>, 3, 4, 5) >>),
           EngineMethods(<< Method(<< "f" >>, 12, 1, 2), Method(<< "g" >>, 10, n, n) >>) }

HighComplexity == 9

MinLines == 10

\* analyzeComplexity without the test for an empty text
analyzeComplexityUnguarded(lines, report) ==
    IF report.kind = "throws"
    THEN [null |-> TRUE, metrics |-> << >>, errors |-> 0, invoked |-> 1]
    ELSE IF report.kind = "nomethods"
    THEN [null |-> TRUE, metrics |-> << >>, errors |-> 1, invoked |-> 1]
    ELSE [null |-> FALSE, invoked |-> 1,
          metrics |-> [k \in 1..Len(report.methods) |->
                          [name       |-> report.methods[k].name,
                           complexity |-> report.methods[k].cyclomatic,
                           lines      |-> [start |-> report.methods[k].lineStart,
                                           end   |-> report.methods[k].lineEnd]]],
          errors |-> 0]

\* analyzeComplexity(document): the metrics, or null, the number of error
\* messages shown and the number of calls of the engine
analyzeComplexity(lines, report) ==
    LET sourceCode == JoinLines(lines)
    IN  IF sourceCode = << >>
        THEN [null |-> TRUE, metrics |-> << >>, errors |-> 1, invoked |-> 0]
        ELSE IF report.kind = "throws"
        THEN [null |-> TRUE, metrics |-> << >>, errors |-> 0, invoked |-> 1]
        ELSE IF report.kind = "nomethods"
        THEN [null |-> TRUE, metrics |-> << >>, errors |-> 1, invoked |-> 1]
        ELSE [null |-> FALSE, invoked |-> 1,
              metrics |-> [k \in 1..Len(report.methods) |->
                              [name       |-> report.methods[k].name,
                               complexity |-> report.methods[k].cyclomatic,
                               lines      |-> [start |-> report.methods[k].lineStart,
                                               end   |-> report.methods[k].lineEnd]]],
              errors |-> 0]

\* HighlightMetric with the threshold itself counted as high
HighlightMetricFromThreshold(lines, ranges, metric) ==
    LET startLine == metric.lines.start - 1
        endLine   == metric.lines.end - 1
    IN  IF metric.lines.start = NaL \/ metric.lines.end = NaL
        THEN ranges
        ELSE IF startLine < 0 \/ endLine < 0 \/ endLine >= Len(lines)
        THEN ranges
        ELSE IF metric.complexity >= HighComplexity
        THEN MapSet(ranges, metric.name,
                    Range(startLine, 0, endLine, Len(Trim(lines[endLine + 1]))))
        ELSE ranges

\* one iteration of the loop of highlightComplexFunctions over the metrics
HighlightMetric(lines, ranges, metric) ==
    LET startLine == metric.lines.start - 1
        endLine   == metric.lines.end - 1
    IN  IF metric.lines.start = NaL \/ metric.lines.end = NaL
        THEN ranges                                    \* skipped with a warning
        ELSE IF startLine < 0 \/ endLine < 0 \/ endLine >= Len(lines)
        THEN ranges                                    \* new Range / lineAt throws, caught
        ELSE IF metric.complexity > HighComplexity
        THEN MapSet(ranges, metric.name,
                    Range(startLine, 0, endLine, Len(Trim(lines[endLine + 1]))))
        ELSE ranges

\* as HighlightFrom, leaving the loop at a metric without numeric lines
RECURSIVE HighlightFromUntilInvalid(_, _, _, _)
HighlightFromUntilInvalid(lines, metrics, k, ranges) ==
    IF k > Len(metrics) THEN ranges
    ELSE IF metrics[k].lines.start = NaL \/ metrics[k].lines.end = NaL THEN ranges
    ELSE HighlightFromUntilInvalid(lines, metrics, k + 1,
                                   HighlightMetric(lines, ranges, metrics[k]))

\* for (const metric of metrics) { ... }
RECURSIVE HighlightFrom(_, _, _, _)
HighlightFrom(lines, metrics, k, ranges) ==
    IF k > Len(metrics) THEN ranges
    ELSE HighlightFrom(lines, metrics, k + 1, HighlightMetric(lines, ranges, metrics[k]))

\* the metric gets a decoration: it is valid and its range can be built
Decorated(lines, metric) ==
    /\ metric.lines.start # NaL /\ metric.lines.end # NaL
    /\ metric.lines.start - 1 >= 0
    /\ metric.lines.end - 1 >= 0
    /\ metric.lines.end - 1 < Len(lines)

NamesOf(metrics) == [k \in 1..Len(metrics) |-> metrics[k].name]

\* the names behind complexityDecorations after the loop
complexityDecorations(lines, metrics) ==
    NamesOf(SelectSeq(metrics, LAMBDA metric : Decorated(lines, metric)))

\* the names behind refactorDecorations after the loop
refactorDecorations(lines, metrics) ==
    NamesOf(SelectSeq(metrics, LAMBDA metric :
                Decorated(lines, metric) /\ metric.complexity > HighComplexity))

\* editor.setDecorations(type, decorations)
SetDecorations(type, names) == [type |-> type, names |-> names]

(***************************************************************************)
(* The session                                                             *)
(***************************************************************************)
VARIABLES
    state,          \* the module-level `state` object
    stateDocs,      \* for each of the two maps, the document its entries were computed from
    timers,         \* the pending setTimeout callbacks, each named by its due time
    now,            \* Date.now()
    hostEditor,     \* vscode.window.activeTextEditor
    docLines,       \* the text of every document, line by line
    docVersion,     \* document.version
    report,         \* what the metrics engine answers for each document's current text
    pendingEdits,   \* workspace edits requested with applyEdit and not yet applied
    ops,            \* generation / refactor operations waiting for the remote answer
    last,           \* the handler that ran last: its event and what it did
    burst,          \* the current burst of significant document-change events
    dispatchedAt,   \* when an operation was last started: by a click, and with a request
    budget,         \* what is left of the bounds on user edits and started operations
    files,          \* the workspace folder and its codematetest entry
    activated       \* the host has activated the extension and not deactivated it

vars == << state, stateDocs, timers, now, hostEditor, docLines, docVersion, report,
           pendingEdits, ops, last, burst, dispatchedAt, budget, files, activated >>

EditingDelay == 2000

CLICK_DEBOUNCE_TIME == 2000

TYPING_COOLDOWN == 2000

\* the `state` object as the module creates it
InitialState ==
    [activeEditor         |-> NoEditor,
     functionRanges       |-> EmptyMap,
     complexityRanges     |-> EmptyMap,
     lastProcessedVersion |-> 0,            \* undefined
     isEditingFunction    |-> FALSE,
     lastClickTime        |-> 0,
     batchShown           |-> FALSE,        \* batchStatusBarItem is visible
     lastTypingTime       |-> 0,
     editingTimeout       |-> 0]            \* null

(***************************************************************************)
(* A handler runs on a context: the session state and what the handler has *)
(* done so far.  The documents, the clock and the engine's reports do not  *)
(* change while a handler runs; they are read from the world record w.     *)
(***************************************************************************)
World == [lines |-> docLines, version |-> docVersion, report |-> report,
          now |-> now, host |-> hostEditor]

Context(st, sd, tm) ==
    [state      |-> st,
     docs       |-> sd,        \* provenance of the two maps
     timers     |-> tm,
     edits      |-> << >>,     \* applyEdit calls made
     passes     |-> 0,         \* detection passes run
     analyses   |-> 0,         \* engine invocations
     errors     |-> 0,         \* showErrorMessage calls
     dispatched |-> << >>,     \* operations started
     decorations |-> << >>]    \* setDecorations calls made

\* highlightComplexFunctions(metrics)
highlightComplexFunctions(c, w, metrics) ==
    LET d     == c.state.activeEditor
        lines == w.lines[d]
    IN  IF d = NoEditor THEN c
        ELSE IF Len(lines) < MinLines THEN c
        ELSE IF metrics.null \/ Len(metrics.metrics) = 0
        THEN [c EXCEPT !.decorations =
                  @ \o << SetDecorations("complexity", << >>),
                          SetDecorations("refactor", << >>) >>]
        ELSE [c EXCEPT !.state.complexityRanges = HighlightFrom(lines, metrics.metrics, 1, EmptyMap),
                       !.docs.complexityRanges = d,
                       !.decorations =
                  @ \o << SetDecorations("complexity",
                                         complexityDecorations(lines, metrics.metrics)),
                          SetDecorations("refactor",
                                         refactorDecorations(lines, metrics.metrics)) >>]

\* const metrics = analyzeComplexity(document); highlightComplexFunctions(metrics);
AnalyzeAndHighlight(c, w) ==
    LET d == c.state.activeEditor
        Highlight(metrics) ==
            highlightComplexFunctions(
                [c EXCEPT !.errors = @ + metrics.errors,
                          !.analyses = @ + metrics.invoked],
                w, metrics)
    IN  Highlight(analyzeComplexity(w.lines[d], w.report[d]))

\* updateDecorations()
updateDecorations(c, w) ==
    LET d == c.state.activeEditor
    IN  IF d = NoEditor THEN c
        ELSE IF ~isValidSourceFile(d)
        THEN [c EXCEPT !.decorations = Append(@, SetDecorations("function", << >>))]
        ELSE LET c1 == IF Len(w.lines[d]) > MinLines
                       THEN AnalyzeAndHighlight(c, w)
                       ELSE [c EXCEPT !.decorations =
                                Append(@, SetDecorations("complexity", << >>))]
                 Detected(det) ==
                    [c1 EXCEPT !.state.functionRanges = det.ranges,
                               !.docs.functionRanges = d,
                               !.passes = @ + 1,
                               !.decorations =
                                  Append(@, SetDecorations("function",
                                      [k \in 1..Len(det.ranges) |-> det.ranges[k].key])),
                               !.edits = IF Len(det.edits) > 0
                                         THEN Append(@, [doc |-> d, version |-> w.version[d],
                                                         inserts |-> det.edits])
                                         ELSE @]
             IN  Detected(detectFunctions(w.lines[d]))

\* updateBatchButton()
updateBatchButton(c) ==
    IF c.state.activeEditor = NoEditor
    THEN [c EXCEPT !.state.batchShown = FALSE]
    ELSE [c EXCEPT !.state.batchShown = (MapSize(c.state.functionRanges) >= 2)]

\* handleEditorChange(editor)
handleEditorChange(c, w, editor) ==
    LET c0 == [c EXCEPT !.state.activeEditor = editor]
    IN  IF editor # NoEditor
        THEN updateBatchButton(updateDecorations(c0, w))
        ELSE [c0 EXCEPT !.state.batchShown = FALSE]

\* /^\s*\/\//
IsCommentText(text) == Lit(text, Ws0(text, 0), << "/", "/" >>) >= 0

\* as significantChange, with every() where the code has some()
significantChangeEvery(contentChanges) ==
    \A k \in 1..Len(contentChanges) : ~IsCommentText(contentChanges[k].text)

\* event.contentChanges.some(change => !change.text.match(/^\s*\/\//))
significantChange(contentChanges) ==
    \E k \in 1..Len(contentChanges) : ~IsCommentText(contentChanges[k].text)

\* as RestartTimer, without the clearTimeout
RestartTimerKeepingOld(c, w) ==
    [c EXCEPT !.timers = @ \cup {w.now + EditingDelay},
              !.state.editingTimeout = w.now + EditingDelay]

\* as RestartTimer, without the setTimeout
RestartTimerWithoutTimeout(c, w) ==
    [c EXCEPT !.timers = @ \ {c.state.editingTimeout},
              !.state.editingTimeout = 0]

\* clearTimeout(state.editingTimeout); state.editingTimeout = setTimeout(..., 2000)
RestartTimer(c, w) ==
    [c EXCEPT !.timers = (@ \ {c.state.editingTimeout}) \cup {w.now + EditingDelay},
              !.state.editingTimeout = w.now + EditingDelay]

\* as handleDocumentChange, without the test for the active document
handleDocumentChangeAnyDocument(c, w, event) ==
    IF c.state.activeEditor = NoEditor
    THEN c
    ELSE LET c1 == RestartTimer([c EXCEPT !.state.isEditingFunction = TRUE], w)
             c2 == [c1 EXCEPT !.state.lastProcessedVersion = w.version[event.document]]
         IN  IF significantChange(event.contentChanges)
             THEN updateBatchButton(updateDecorations(c2, w))
             ELSE c2

\* handleDocumentChange(event)
handleDocumentChange(c, w, event) ==
    IF c.state.activeEditor = NoEditor \/ event.document # c.state.activeEditor
    THEN c
    ELSE LET c1 == RestartTimer([c EXCEPT !.state.isEditingFunction = TRUE], w)
             c2 == [c1 EXCEPT !.state.lastProcessedVersion = w.version[event.document]]
         IN  IF significantChange(event.contentChanges)
             THEN updateBatchButton(updateDecorations(c2, w))
             ELSE c2

(***************************************************************************)
(* Operations.  An operation that has sent its remote request waits in     *)
(* `ops` for the answer.                                                   *)
(***************************************************************************)
\* the record of one started handler call: `requested` tells whether it went
\* on to send the remote request
Dispatch(kind, name, doc, code, range, c, requested) ==
    [kind       |-> kind,
     name       |-> name,
     doc        |-> doc,               \* the document the operation works on
     source     |-> c.state.activeEditor,  \* the document extractFunctionCode reads
     code       |-> code,              \* the text sent to the remote endpoint
     range      |-> range,
     rangesDoc  |-> IF kind = "refactor" THEN c.docs.complexityRanges
                    ELSE c.docs.functionRanges,
     rangesSize |-> MapSize(c.state.functionRanges),
     known      |-> IF kind = "refactor" THEN MapHas(c.state.complexityRanges, name)
                    ELSE MapHas(c.state.functionRanges, name),
     requested  |-> requested]

NoRange == Range(0, 0, 0, 0)

\* for (const [name, range] of map) { if (pred(range)) { ...; break; } }
FirstEntry(m, Pred(_)) ==
    LET hits == { k \in 1..Len(m) : Pred(m[k].value) }
    IN  IF hits = {} THEN 0 ELSE MinOf(hits)

\* handleTestGeneration(functionInfo): info.code is the string-or-null that
\* extractFunctionCode returned; pos is the selection of the host's editor
handleTestGeneration(c, w, info, pos) ==
    LET Contains(r) == RangeContains(r, pos.line, pos.character)
        k     == FirstEntry(c.state.functionRanges, Contains)
        entry == c.state.functionRanges[k]
        found == [name  |-> entry.key,
                  range |-> entry.value,
                  code  |-> IF c.state.activeEditor = NoEditor THEN Null
                            ELSE extractFunctionCode(w.lines[c.state.activeEditor],
                                                     entry.value.sl)]
        Generate(final) ==
            [c EXCEPT !.dispatched =
                Append(@, Dispatch("single", final.name, c.state.activeEditor,
                                   final.code.text, final.range, c, Truthy(final.code)))]
    IN  Generate(IF Truthy(info.code) THEN info
                 ELSE IF w.host = NoEditor \/ k = 0 THEN info
                 ELSE found)

\* handleBatchTestGeneration(editor)
handleBatchTestGeneration(c, w, editor) ==
    [c EXCEPT !.dispatched =
        Append(@, Dispatch("batch", << >>, editor,
                           IF editor = NoEditor THEN << >> ELSE JoinLines(w.lines[editor]),
                           NoRange, c,
                           editor # NoEditor /\ MapSize(c.state.functionRanges) >= 2))]

\* as Cooled, reading the typing time where the code reads the click time
CooledSinceTyping(c, w) == w.now - c.state.lastTypingTime > CLICK_DEBOUNCE_TIME

\* currentTime - state.lastClickTime > CLICK_DEBOUNCE_TIME
Cooled(c, w) == w.now - c.state.lastClickTime > CLICK_DEBOUNCE_TIME

\* the part of handleSelectionChange after the decorations are refreshed
ClickDispatch(c, w, event) ==
    LET selection   == event.selections[1]
        document    == c.state.activeEditor
        text        == w.lines[document][selection.line + 1]
        lineLength  == Len(Trim(text))
        currentTime == w.now
        cooled      == Cooled(c, w)
        isBatchClick ==
            /\ selection.character >= lineLength - 2
            /\ selection.character <= lineLength + 1
        isDeliberateClick ==
            /\ (selection.character = lineLength + 5 \/ selection.character = lineLength + 6)
            /\ cooled
        OnLine(r) == r.sl = selection.line
        k     == FirstEntry(c.state.functionRanges, OnLine)
        entry == c.state.functionRanges[k]
        clicked == [c EXCEPT !.state.lastClickTime = currentTime]
    IN  IF Trim(text) = << >> THEN c
        ELSE IF c.state.isEditingFunction
                \/ currentTime - c.state.lastTypingTime < TYPING_COOLDOWN
        THEN c
        ELSE IF /\ selection.line = Len(w.lines[document]) - 1
                /\ MapSize(c.state.functionRanges) >= 2
                /\ cooled
                /\ isBatchClick
                /\ Len(event.selections) > 1
        THEN handleBatchTestGeneration(clicked, w, document)
        ELSE IF ~isDeliberateClick THEN c
        ELSE IF k = 0 THEN clicked
        ELSE handleTestGeneration(clicked, w,
                [name  |-> entry.key,
                 range |-> entry.value,
                 code  |-> extractFunctionCode(w.lines[document], entry.value.sl)],
                selection)

\* handleSelectionChange(event)
handleSelectionChange(c, w, event) ==
    IF c.state.activeEditor = NoEditor \/ event.textEditor # c.state.activeEditor
    THEN c
    ELSE IF ~event.selections[1].isEmpty
    THEN c
    ELSE LET c1 == updateBatchButton(updateDecorations(c, w))
             c2 == IF Len(w.lines[c.state.activeEditor]) > MinLines
                   THEN AnalyzeAndHighlight(c1, w)
                   ELSE c1
         IN  ClickDispatch(c2, w, event)

\* as handleFunctionRefactoring, resolving the name in functionRanges
handleFunctionRefactoringByDetection(c, w, functionName, cancelled) ==
    LET functionRange == MapGet(c.state.functionRanges, functionName)
        functionCode  == IF c.state.activeEditor = NoEditor THEN Null
                         ELSE extractFunctionCode(w.lines[c.state.activeEditor],
                                                  functionRange.sl)
        Started(code, range, requested) ==
            [c EXCEPT !.dispatched =
                Append(@, Dispatch("refactor", functionName, w.host, code, range, c,
                                   requested))]
    IN  IF w.host = NoEditor
        THEN [Started(<< >>, NoRange, FALSE) EXCEPT !.errors = @ + 1]
        ELSE IF ~MapHas(c.state.functionRanges, functionName)
        THEN Started(<< >>, NoRange, FALSE)
        ELSE IF cancelled
        THEN Started(<< >>, functionRange, FALSE)
        ELSE IF ~Truthy(functionCode)
        THEN [Started(<< >>, functionRange, FALSE) EXCEPT !.errors = @ + 1]
        ELSE Started(functionCode.text, functionRange, TRUE)

\* handleFunctionRefactoring(functionName); cancelled is
\* token.isCancellationRequested at the one place it is read
handleFunctionRefactoring(c, w, functionName, cancelled) ==
    LET functionRange == MapGet(c.state.complexityRanges, functionName)
        functionCode  == IF c.state.activeEditor = NoEditor THEN Null
                         ELSE extractFunctionCode(w.lines[c.state.activeEditor],
                                                  functionRange.sl)
        Started(code, range, requested) ==
            [c EXCEPT !.dispatched =
                Append(@, Dispatch("refactor", functionName, w.host, code, range, c,
                                   requested))]
    IN  IF w.host = NoEditor
        THEN [Started(<< >>, NoRange, FALSE) EXCEPT !.errors = @ + 1]
        ELSE IF ~MapHas(c.state.complexityRanges, functionName)
        THEN Started(<< >>, NoRange, FALSE)
        ELSE IF cancelled
        THEN Started(<< >>, functionRange, FALSE)
        ELSE IF ~Truthy(functionCode)
        THEN [Started(<< >>, functionRange, FALSE) EXCEPT !.errors = @ + 1]
        ELSE Started(functionCode.text, functionRange, TRUE)

\* the command extension.handleFunctionRefactoring; functionName = << >> when
\* the command is run without an argument, pos is textEditor.selection.active
RefactorCommand(c, w, functionName, pos, cancelled) ==
    LET Contains(r) == RangeContains(r, pos.line, pos.character)
        k  == FirstEntry(c.state.complexityRanges, Contains)
        nm == IF functionName # << >> THEN functionName
              ELSE IF k = 0 THEN << >>
              ELSE c.state.complexityRanges[k].key
    IN  IF nm = << >>
        THEN [c EXCEPT !.errors = @ + 1]
        ELSE handleFunctionRefactoring(c, w, nm, cancelled)

(***************************************************************************)
(* Bounds of the model                                                     *)
(***************************************************************************)
StartTime == 3000       \* Date.now() when the extension is activated

TickMs == 1500          \* the clock advances in steps of TickMs

MaxTicks == 2           \* number of clock steps

MaxEvents == 2          \* number of events the user causes: editor changes, edits,
                        \* selections, commands

MaxOps == 1             \* operations waiting for the remote answer at one time

MaxPending == 2         \* workspace edits waiting to be applied

Editors == Docs \cup {NoEditor}

\* what the workspace may hold at the path codematetest
FolderKinds == { "absent", "uncreatable", "directory", "linkedDirectory", "file", "denied" }

\* the workspace when the extension is activated: a folder without
\* codematetest, a folder where codematetest is a file, or no folder
InitialFiles ==
    { [workspace |-> TRUE,  folder |-> "absent", written |-> {}],
      [workspace |-> TRUE,  folder |-> "file",   written |-> {}],
      [workspace |-> FALSE, folder |-> "absent", written |-> {}] }

\* what the window shows when the extension is activated
InitialEditors == {"a", NoEditor}

(***************************************************************************)
(* The host                                                                *)
(***************************************************************************)
\* activate(context), with the host's active editor
activate(c, w) ==
    LET c0 == [c EXCEPT !.state.functionRanges = EmptyMap]
    IN  IF w.host # NoEditor /\ isValidSourceFile(w.host)
        THEN updateBatchButton(updateDecorations([c0 EXCEPT !.state.activeEditor = w.host], w))
        ELSE c0

NoProvenance == [functionRanges |-> NoEditor, complexityRanges |-> NoEditor]

\* deactivate(): the host also disposes of the subscriptions, the status-bar
\* item among them
deactivate(c) ==
    [c EXCEPT !.state.functionRanges = EmptyMap,
              !.state.batchShown = FALSE]

\* no operation
NoOp == [kind |-> "none"]

\* the operation a dispatch record starts
OpOf(x) == [kind |-> x.kind, name |-> x.name, doc |-> x.doc, source |-> x.source,
            code |-> x.code,
            range |-> x.range, known |-> x.known,
            version   |-> docVersion[x.doc],    \* of the document, at the request
            cancelled |-> FALSE]                \* the progress token, since then

Requested(c) == { k \in 1..Len(c.dispatched) : c.dispatched[k].requested }

\* what the session was like when the handler started
Was ==
    [isEditingFunction |-> state.isEditingFunction,
     lastClickTime     |-> state.lastClickTime,
     sinceClick        |-> now - dispatchedAt.click,
     sinceRequest      |-> now - dispatchedAt.request]

Observation(c, handler, event) ==
    [handler    |-> handler,
     event      |-> event,
     was        |-> Was,
     passes     |-> c.passes,
     analyses   |-> c.analyses,
     errors     |-> c.errors,
     edits      |-> Len(c.edits),
     dispatched |-> c.dispatched,
     decorations |-> c.decorations,
     wrote      |-> FALSE,
     replaced   |-> FALSE,
     answered   |-> NoOp]

\* a step of the host that runs none of the extension's handlers
Plain(handler, event) ==
    [handler |-> handler, event |-> event, was |-> [none |-> TRUE], passes |-> 0,
     analyses |-> 0, errors |-> 0, edits |-> 0, dispatched |-> << >>,
     decorations |-> << >>, wrote |-> FALSE, replaced |-> FALSE, answered |-> NoOp]

\* no handler is running and none has just returned: the host is in its event loop
Idle == Plain("idle", [none |-> TRUE])

\* the handler's effects become the next state
Commit(c, obs, base) ==
    /\ last = Idle
    /\ Len(base.queue) + Len(c.edits) <= MaxPending
    /\ Cardinality(base.ops) + Cardinality(Requested(c)) <= MaxOps
    /\ state' = c.state
    /\ stateDocs' = c.docs
    /\ timers' = c.timers
    /\ pendingEdits' = base.queue \o c.edits
    /\ ops' = base.ops \cup { OpOf(c.dispatched[k]) : k \in Requested(c) }
    /\ budget' = base.budget
    /\ dispatchedAt' =
          [click   |-> IF obs.handler = "selectionChange" /\ Len(c.dispatched) > 0
                       THEN now ELSE dispatchedAt.click,
           request |-> IF Requested(c) # {} THEN now ELSE dispatchedAt.request]
    /\ last' = [obs EXCEPT !.answered = base.answered]

Here == Context(state, stateDocs, timers)

\* what a handler's effects are added to
Base == [budget |-> budget, queue |-> pendingEdits, ops |-> ops, answered |-> NoOp]

\* the same, for a handler that runs on an event the user causes
Spent == [Base EXCEPT !.budget = @ - 1]

Init ==
    /\ now = StartTime
    /\ hostEditor \in InitialEditors
    /\ docLines = [d \in Docs |-> InitialLines(d)]
    /\ docVersion = [d \in Docs |-> 1]
    /\ report \in [Docs -> UNION { EngineResults(Len(InitialLines(d))) : d \in Docs }]
    /\ \A d \in Docs : report[d] \in EngineResults(Len(InitialLines(d)))
    /\ dispatchedAt = [click |-> 0, request |-> 0]
    /\ \E c \in { activate(Context(InitialState, NoProvenance, {}), World) } :
          /\ state = c.state
          /\ stateDocs = c.docs
          /\ timers = c.timers
          /\ pendingEdits = c.edits
          /\ last = Observation(c, "activate", [editor |-> hostEditor])
    /\ ops = {}
    /\ burst = [events |-> 0, passes |-> 0, startedAt |-> 0, changedAt |-> 0]
    /\ budget = MaxEvents
    /\ files \in InitialFiles
    /\ activated = TRUE

\* the host makes another editor (or none) the active one
EditorChange(editor) ==
    /\ editor # hostEditor
    /\ budget > 0
    /\ hostEditor' = editor
    /\ \E c \in { IF activated
                   THEN handleEditorChange(Here, [World EXCEPT !.host = editor], editor)
                   ELSE Here } :
          Commit(c, IF activated
                    THEN Observation(c, "editorChange", [editor |-> editor])
                    ELSE Plain("unheard", [editor |-> editor]), Spent)
    /\ UNCHANGED << files, activated, now, docLines, docVersion, report, burst >>

\* the clock; the host applies or refuses a workspace edit before the clock
\* advances
Tick ==
    /\ last = Idle
    /\ pendingEdits = << >>
    /\ now < StartTime + MaxTicks * TickMs
    /\ now' = now + TickMs
    /\ UNCHANGED << files, activated, state, stateDocs, timers, hostEditor, docLines, docVersion, report,
                    pendingEdits, ops, last, burst, dispatchedAt, budget >>

\* as TimerFires, with a callback that leaves isEditingFunction as it is
TimerFiresKeepingFlag(due) ==
    /\ last = Idle
    /\ due \in timers
    /\ now >= due
    /\ timers' = timers \ {due}
    /\ UNCHANGED << files, activated, state, stateDocs, now, hostEditor, docLines, docVersion,
                    report, pendingEdits, ops, last, burst, dispatchedAt, budget >>

\* the callback of setTimeout(() => { state.isEditingFunction = false; }, 2000)
TimerFires(due) ==
    /\ last = Idle
    /\ due \in timers
    /\ now >= due
    /\ timers' = timers \ {due}
    /\ state' = [state EXCEPT !.isEditingFunction = FALSE]
    /\ UNCHANGED << files, activated, stateDocs, now, hostEditor, docLines, docVersion, report,
                    pendingEdits, ops, last, burst, dispatchedAt, budget >>

(***************************************************************************)
(* Document changes.  Every change of a document's text raises its version *)
(* and makes the host deliver a document-change event.                     *)
(***************************************************************************)
\* the texts a user types over a line
UserTexts == { lnComment, lnIndentedComment, lnStmt }

\* the contentChanges of the events a user causes: none, one line replaced,
\* or two lines replaced at once
UserChanges ==
    { << >> }
    \cup { << [line |-> 0, text |-> t] >> : t \in UserTexts }
    \cup { << [line |-> 0, text |-> lnComment], [line |-> 1, text |-> lnStmt] >> }

RECURSIVE ApplyChanges(_, _, _)
ApplyChanges(lines, changes, k) ==
    IF k > Len(changes) THEN lines
    ELSE ApplyChanges([lines EXCEPT ![changes[k].line + 1] = changes[k].text], changes, k + 1)

\* as InsertAt, one column before the position
InsertAtColumnBefore(lines, pos) ==
    LET line == IF pos.line < Len(lines) THEN pos.line ELSE Len(lines) - 1
        text == lines[line + 1]
        col  == IF pos.character < Len(text) THEN pos.character - 1 ELSE Len(text) - 1
    IN  [lines EXCEPT ![line + 1] =
            SubSeq(text, 1, col) \o placeholder \o SubSeq(text, col + 1, Len(text))]

\* TextEdit.insert(position, placeholder), the position validated by the host
InsertAt(lines, pos) ==
    LET line == IF pos.line < Len(lines) THEN pos.line ELSE Len(lines) - 1
        text == lines[line + 1]
        col  == IF pos.character < Len(text) THEN pos.character ELSE Len(text)
    IN  [lines EXCEPT ![line + 1] =
            SubSeq(text, 1, col) \o placeholder \o SubSeq(text, col + 1, Len(text))]

RECURSIVE ApplyInserts(_, _, _)
ApplyInserts(lines, inserts, k) ==
    IF k > Len(inserts) THEN lines
    ELSE ApplyInserts(InsertAt(lines, inserts[k]), inserts, k + 1)

\* edit.replace(uri, range, text), the range validated by the host
ReplaceRange(lines, range, text) ==
    LET n    == Len(lines)
        el   == IF range.el < n THEN range.el ELSE n - 1
        sl   == IF range.sl < el THEN range.sl ELSE el
        head == lines[sl + 1]
        tail == lines[el + 1]
        sc   == IF range.sl > el THEN Len(head)
                ELSE IF range.sc < Len(head) THEN range.sc ELSE Len(head)
        ec   == IF range.el >= n THEN Len(tail)
                ELSE IF range.ec < Len(tail) THEN range.ec ELSE Len(tail)
    IN  SubSeq(lines, 1, sl)
        \o << SubSeq(head, 1, sc) \o text \o SubSeq(tail, ec + 1, Len(tail)) >>
        \o SubSeq(lines, el + 2, n)

\* the burst of significant change events for the active document: events
\* less than EditingDelay apart belong to one burst
NextBurst(c, event, handled) ==
    LET recent  == burst.changedAt > 0 /\ now - burst.changedAt < EditingDelay
        started == IF recent THEN burst.startedAt ELSE now
    IN  IF ~handled THEN burst
        ELSE IF ~significantChange(event.contentChanges)
        THEN [events |-> 0, passes |-> 0, startedAt |-> started, changedAt |-> now]
        ELSE IF burst.events > 0 /\ recent
        THEN [events |-> burst.events + 1, passes |-> burst.passes + c.passes,
              startedAt |-> started, changedAt |-> now]
        ELSE [events |-> 1, passes |-> c.passes, startedAt |-> started, changedAt |-> now]

\* document d gets the text newLines; the host delivers the change event
DocumentChanges(d, newLines, contentChanges, handler, base, reparse, replaced) ==
    /\ docLines' = [docLines EXCEPT ![d] = newLines]
    /\ docVersion' = [docVersion EXCEPT ![d] = IF Len(contentChanges) > 0 THEN @ + 1 ELSE @]
    /\ \E r \in EngineResults(Len(newLines)) :
          /\ (~reparse \/ newLines = docLines[d]) => r = report[d]
          /\ report' = [report EXCEPT ![d] = r]
    /\ \E event \in { [document |-> d, contentChanges |-> contentChanges] } :
       \E c \in { IF activated
                   THEN handleDocumentChange(Here,
                            [lines |-> docLines', version |-> docVersion', report |-> report',
                             now |-> now, host |-> hostEditor], event)
                   ELSE Here } :
          /\ burst' = NextBurst(c, event,
                                /\ activated
                                /\ state.activeEditor # NoEditor
                                /\ d = state.activeEditor)
          /\ Commit(c, [(IF activated THEN Observation(c, handler, event)
                            ELSE Plain("unheard", [unheard |-> event]))
                           EXCEPT !.replaced = replaced],
                    base)
    /\ UNCHANGED << files, activated, now, hostEditor >>

\* the user edits document d
UserEdit(d, contentChanges) ==
    /\ budget > 0
    /\ d = hostEditor \/ (d = "b" /\ contentChanges = << [line |-> 0, text |-> lnStmt] >>)
    /\ \A k \in 1..Len(contentChanges) : contentChanges[k].line < Len(docLines[d])
    /\ DocumentChanges(d, ApplyChanges(docLines[d], contentChanges, 1), contentChanges,
                       "documentChange", Spent,
                       TRUE, FALSE)

\* the host takes up the oldest workspace edit requested by a detection pass:
\* it applies the edit if the document still has the version the edit was
\* made for, and refuses it otherwise
ApplyEdit ==
    /\ Len(pendingEdits) > 0
    /\ last = Idle
    /\ LET edit == Head(pendingEdits)
           d    == edit.doc
       IN  IF docVersion[d] = edit.version
           THEN DocumentChanges(d, ApplyInserts(docLines[d], edit.inserts, 1),
                                [k \in 1..Len(edit.inserts) |->
                                    [line |-> edit.inserts[k].line, text |-> placeholder]],
                                "paddingApplied", [Base EXCEPT !.queue = Tail(@)],
                                FALSE, FALSE)
           ELSE /\ pendingEdits' = Tail(pendingEdits)
                /\ last' = Plain("paddingRefused", [document |-> d])
                /\ UNCHANGED << files, activated, state, stateDocs, timers, now, hostEditor, docLines,
                                docVersion, report, ops, burst, dispatchedAt, budget >>

(***************************************************************************)
(* Selection events and commands                                           *)
(***************************************************************************)
\* the caret positions tried on a line: around the end of its trimmed text,
\* where the decorations are drawn, as far as the line has characters
Columns(text) ==
    LET n == Len(Trim(text))
    IN  { n - 2, n, n + 2, n + 5, n + 6, n + 7 } \cap 0..Len(text)

ValidCarets(lines) ==
    UNION { { [line |-> i, character |-> col, isEmpty |-> TRUE] :
                col \in Columns(lines[i + 1]) } :
            i \in { 0, Len(lines) - 1 } }

\* textEditor.selection.active when a command runs
CommandCarets(lines) ==
    { [line |-> i, character |-> 0] : i \in { 0, 1 } \cap 0..(Len(lines) - 1) }

\* the selections of the events: one caret, two carets, or a non-empty selection
Selections(lines) ==
    { << p >> : p \in ValidCarets(lines) }
    \cup { << p, [line |-> 0, character |-> 0, isEmpty |-> TRUE] >> :
                p \in { q \in ValidCarets(lines) : q.line = Len(lines) - 1 } }
    \cup { << [line |-> 0, character |-> 0, isEmpty |-> FALSE] >> }

HostCarets == IF hostEditor = NoEditor THEN {} ELSE CommandCarets(docLines[hostEditor])

\* every selection for the session's editor, one caret for any other editor
EditorSelections(editor) ==
    IF editor = state.activeEditor
    THEN Selections(docLines[editor])
    ELSE { << [line |-> 0, character |-> 0, isEmpty |-> TRUE] >> }

\* onDidChangeTextEditorSelection
SelectionChange(editor, selections) ==
    /\ activated
    /\ budget > 0
    /\ last = Idle
    /\ \E event \in { [textEditor |-> editor, selections |-> selections] } :
       \E c \in { handleSelectionChange(Here, World, event) } :
          Commit(c, Observation(c, "selectionChange", event), Spent)
    /\ UNCHANGED << files, activated, now, hostEditor, docLines, docVersion, report, burst >>

\* the command extension.generateTestForFunction: the handler is given the
\* text editor, an object without `code`
GenerateTestCommand(pos) ==
    /\ activated
    /\ hostEditor # NoEditor
    /\ budget > 0
    /\ last = Idle
    /\ \E c \in { handleTestGeneration(Here, World,
                        [name |-> << >>, range |-> NoRange, code |-> Null], pos) } :
          Commit(c, Observation(c, "generateTestForFunction", [pos |-> pos]), Spent)
    /\ UNCHANGED << files, activated, now, hostEditor, docLines, docVersion, report, burst >>

\* the command extension.generateTestsForAllFunctions (also the status-bar item)
BatchCommand ==
    /\ activated
    /\ hostEditor # NoEditor
    /\ budget > 0
    /\ last = Idle
    /\ \E c \in { handleBatchTestGeneration(Here, World, hostEditor) } :
          Commit(c, Observation(c, "generateTestsForAllFunctions",
                                [editor |-> hostEditor]), Spent)
    /\ UNCHANGED << files, activated, now, hostEditor, docLines, docVersion, report, burst >>

\* the names a refactor request may carry: none, the names the engine
\* reports, and a name it does not report
RefactorNames == { << >>, << "f" >>, << "g" >>, << "z" >> }

\* the arguments of the refactor command: no name and a caret, or a name
RefactorArgs ==
    { [functionName |-> << >>, pos |-> pos, cancelled |-> FALSE] : pos \in HostCarets }
    \cup { [functionName |-> nm, pos |-> [line |-> 0, character |-> 0], cancelled |-> cn] :
              nm \in RefactorNames \ { << >> }, cn \in BOOLEAN }

\* the command extension.handleFunctionRefactoring
RefactorCommandRuns(functionName, pos, cancelled) ==
    /\ activated
    /\ hostEditor # NoEditor
    /\ budget > 0
    /\ last = Idle
    /\ \E c \in { RefactorCommand(Here, World, functionName, pos, cancelled) } :
          Commit(c, Observation(c, "handleFunctionRefactoring",
                                [functionName |-> functionName, pos |-> pos,
                                 cancelled |-> cancelled]), Spent)
    /\ UNCHANGED << files, activated, now, hostEditor, docLines, docVersion, report, burst >>

(***************************************************************************)
(* The remote endpoint answers                                             *)
(***************************************************************************)
\* extractRefactoredCode(data.data.content)
refactoredResult == lnFunFOneLine

\* (await vscode.workspace.fs.stat(folderPath)).type: the FileType flags
StatType(kind) ==
    CASE kind = "directory"       -> { "Directory" }
      [] kind = "linkedDirectory" -> { "Directory", "SymbolicLink" }
      [] kind = "file"            -> { "File" }
      [] OTHER                    -> {}

FolderResult(ok, folder, error) == [ok |-> ok, folder |-> folder, error |-> error]

\* ensureTestFolderExists(folderPath): whether it returns true, what the path
\* holds afterwards, and the error it throws
ensureTestFolderExists(kind) ==
    IF kind \in { "absent", "uncreatable" }               \* stat: FileNotFound
    THEN IF kind = "absent"
         THEN FolderResult(TRUE, "directory", "none")    \* createDirectory
         ELSE FolderResult(FALSE, kind, "Failed to create test directory")
    ELSE IF kind = "denied"
    THEN FolderResult(FALSE, kind, "stat")               \* throw error
    ELSE IF StatType(kind) # { "Directory" }
    THEN FolderResult(FALSE, kind, "Path exists but is not a directory")
    ELSE FolderResult(TRUE, kind, "none")

\* the file a generation writes: <functionName>.test.js, <fileName>.test.js
TestFileOf(op) == IF op.kind = "single" THEN op.name ELSE << op.doc >>

\* createTestFile(functionName, content), and the same steps inside
\* handleBatchTestGeneration: the files afterwards, the error messages shown
\* by the operation, and whether the test file was written
WriteTest(op, fs) ==
    LET folder == ensureTestFolderExists(fs.folder)
        \* createTestFile shows a message and throws the error again
        shown  == IF op.kind = "single" THEN 2 ELSE 1
    IN  IF ~fs.workspace
        THEN [files |-> fs, errors |-> 1, wrote |-> FALSE]
        ELSE IF ~folder.ok
        THEN [files |-> fs, errors |-> shown, wrote |-> FALSE]
        ELSE [files  |-> [fs EXCEPT !.folder = folder.folder,
                                    !.written = @ \cup { TestFileOf(op) }],
              errors |-> 0,
              wrote  |-> TRUE]

\* as Completion, going on to the file after a failed request
CompletionWritingAnyway(op, ok, fs) ==
    IF op.kind = "refactor"
    THEN [files |-> fs, errors |-> IF ok THEN 0 ELSE 1, wrote |-> FALSE]
    ELSE WriteTest(op, fs)

\* what an operation does with the answer, the replace edit apart
Completion(op, ok, fs) ==
    IF ~ok
    THEN [files |-> fs, errors |-> 1, wrote |-> FALSE]
    ELSE IF op.kind = "refactor"
    THEN [files |-> fs, errors |-> 0, wrote |-> FALSE]
    ELSE WriteTest(op, fs)

\* as AppliesAnswer, with a check of the document's version
AppliesAnswerIfUnchanged(op, ok) ==
    op.kind = "refactor" /\ ok /\ docVersion[op.doc] = op.version

\* as AppliesAnswer, with a second look at the cancellation token
AppliesAnswerUnlessCancelled(op, ok) ==
    op.kind = "refactor" /\ ok /\ ~op.cancelled

\* the operation goes on to
\* edit.replace(editor.document.uri, functionRange, refactoredResult)
AppliesAnswer(op, ok) == op.kind = "refactor" /\ ok

\* the answer to an operation's request arrives: ok, or a failure (a non-2xx
\* status, a network error, a malformed body)
Answer(op, ok) ==
    /\ last = Idle
    /\ op \in ops
    /\ IF AppliesAnswer(op, ok)
       THEN DocumentChanges(op.doc, ReplaceRange(docLines[op.doc], op.range, refactoredResult),
                            << [line |-> op.range.sl, text |-> refactoredResult] >>,
                            "refactorAnswer",
                            [Base EXCEPT !.ops = @ \ {op}, !.answered = op], TRUE, TRUE)
       ELSE /\ ops' = ops \ {op}
            /\ \E r \in { Completion(op, ok, files) } :
                  /\ files' = r.files
                  /\ last' = [Plain(IF op.kind = "refactor" THEN "refactorAnswer"
                                        ELSE "generationAnswer", [op |-> op, ok |-> ok])
                                 EXCEPT !.errors = r.errors, !.wrote = r.wrote,
                                        !.answered = op]
            /\ UNCHANGED << activated, state, stateDocs, timers, now, hostEditor, docLines,
                            docVersion, report, pendingEdits, burst, dispatchedAt, budget >>

\* the user presses Cancel on the progress notification of a refactor
\* operation whose request is on its way
CancelRefactoring(op) ==
    /\ last = Idle
    /\ op \in ops
    /\ op.kind = "refactor"
    /\ ~op.cancelled
    /\ ops' = (ops \ {op}) \cup { [op EXCEPT !.cancelled = TRUE] }
    /\ UNCHANGED << files, activated, state, stateDocs, timers, now, hostEditor, docLines,
                    docVersion, report, pendingEdits, last, burst, dispatchedAt, budget >>

\* the host deactivates the extension
Deactivate ==
    /\ activated
    /\ budget > 0
    /\ activated' = FALSE
    /\ \E c \in { deactivate(Here) } :
          Commit(c, Observation(c, "deactivate", [none |-> TRUE]), Spent)
    /\ UNCHANGED << files, now, hostEditor, docLines, docVersion, report, burst >>

\* the host activates the extension again
Activate ==
    /\ ~activated
    /\ activated' = TRUE
    /\ \E c \in { activate(Here, World) } :
          Commit(c, Observation(c, "activate", [editor |-> hostEditor]), Base)
    /\ UNCHANGED << files, now, hostEditor, docLines, docVersion, report, burst >>

\* the handler has returned; the host is back in its event loop
Return ==
    /\ last # Idle
    /\ last' = Idle
    /\ UNCHANGED << files, activated, state, stateDocs, timers, now, hostEditor, docLines, docVersion, report,
                    pendingEdits, ops, burst, dispatchedAt, budget >>

Next ==
    \/ \E editor \in Editors : EditorChange(editor)
    \/ \E d \in Docs, contentChanges \in UserChanges : UserEdit(d, contentChanges)
    \/ ApplyEdit
    \/ \E editor \in Docs : \E selections \in EditorSelections(editor) :
          SelectionChange(editor, selections)
    \/ \E pos \in HostCarets : GenerateTestCommand(pos)
    \/ BatchCommand
    \/ \E args \in RefactorArgs :
          RefactorCommandRuns(args.functionName, args.pos, args.cancelled)
    \/ \E op \in ops, ok \in BOOLEAN : Answer(op, ok)
    \/ \E op \in ops : CancelRefactoring(op)
    \/ Deactivate
    \/ Activate
    \/ Tick
    \/ \E due \in timers : TimerFires(due)
    \/ Return

Spec == Init /\ [][Next]_vars

(***************************************************************************)
(* The same program with a host that keeps running: the clock goes on      *)
(* while a timer is pending, a timer that is due fires, a handler returns, *)
(* and a workspace edit that was requested is taken up.  The user and the  *)
(* remote endpoint are under no such obligation.                           *)
(***************************************************************************)
\* the clock after the last step of Tick, while a timer is not yet due
LateTick ==
    /\ last = Idle
    /\ pendingEdits = << >>
    /\ now >= StartTime + MaxTicks * TickMs
    /\ timers # {}
    /\ \A due \in timers : now < due
    /\ now' = now + TickMs
    /\ UNCHANGED << files, activated, state, stateDocs, timers, hostEditor, docLines,
                    docVersion, report, pendingEdits, ops, last, burst, dispatchedAt, budget >>

LiveNext == Next \/ LateTick

\* ApplyEdit can be taken: a handler that fits the bounds always exists
ApplyEditEnabled == Len(pendingEdits) > 0 /\ last = Idle

\* weak fairness of the clock, the timers, the handlers' return and ApplyEdit
\* (the last with its enabling condition written out)
Fairness ==
    /\ WF_vars(Tick \/ LateTick)
    /\ WF_vars(\E due \in timers : TimerFires(due))
    /\ WF_vars(Return)
    /\ <>[]ApplyEditEnabled => []<><<ApplyEdit>>_vars

\* a.js is open when the extension is activated, in a workspace folder
LiveInit ==
    /\ Init
    /\ hostEditor = "a"
    /\ files = [workspace |-> TRUE, folder |-> "absent", written |-> {}]

LiveSpec == LiveInit /\ [][LiveNext]_vars /\ Fairness

(***************************************************************************)
(* The functions on their own: detectFunctions, the host applying the      *)
(* padding it asked for, extractFunctionCode, analyzeComplexity with       *)
(* highlightComplexFunctions, and the dashboard, each called on any small  *)
(* document.  `last` holds the call made last and what it returned.        *)
(***************************************************************************)
lnConstFunK == kwConst \o << " ", "k", "=" >> \o kwFunction \o << "(", ")", "{" >>

lnIndentedMethod == Spaces(2) \o lnMethodH

lnBlanks == Spaces(2)

lnCommentedMethod == << "/", "/" >> \o lnMethodH

lnBlockCommentedMethod == << " ", "/", "*" >> \o lnMethodH

lnMethodAfterComment == << "x", " ", "/", "/" >> \o lnMethodH

lnOpen == << "{" >>

lnReopen == << "{", "}", "{" >>

\* the lines the small documents are made of
UnitLines ==
    { lnFunF, lnArrowG, lnConstFunK, lnMethodH, lnIndentedMethod, lnFunFOneLine,
      lnEmpty, lnBlanks, lnCommentedMethod, lnBlockCommentedMethod, lnMethodAfterComment,
      lnOpen, lnClose, lnReopen, lnStmt }

MaxUnitLines == 2

MaxPasses == 3

\* a document of n lines holding f on lines 1-2 and g on lines 4-5 (one-based)
LongDocument(n) ==
    [k \in 1..n |-> IF k = 1 THEN lnFunF
                    ELSE IF k = 4 THEN lnArrowG
                    ELSE IF k = 2 \/ k = 5 THEN lnClose
                    ELSE lnStmt]

UnitDocuments ==
    UNION { [1..n -> UnitLines] : n \in 1..MaxUnitLines }
    \cup { LongDocument(n) : n \in { MinLines - 1, MinLines, MinLines + 1 } }

\* what the engine may answer for the text of a document
UnitReports(lines) ==
    IF Len(lines) < MinLines - 1
    THEN IF JoinLines(lines) = << >>
         THEN { EngineThrows, EngineMethods(<< >>) }
         ELSE { EngineMethods(<< >>) }
    ELSE { EngineThrows, EngineNoMethods, EngineMethods(<< >>),
           EngineMethods(<< Method(<< "f" >>, 12, 1, 2), Method(<< "g" >>, 9, 4, 5) >>),
           EngineMethods(<< Method(<< "f" >>, 10, 1, 2), Method(<< "g" >>, 12, NaL, NaL),
                            Method(<< "k" >>, 10, Len(lines), Len(lines)) >>) }

\* the inputs of calculateMaintainability
Efforts == { 0, 20, 100000 }

Cyclomatics == { 0, 10 }

Slocs == { 0, 1, 1000 }

\* Math.log(x + epsilon) with epsilon = 1e-5, in thousandths
LogMilli(x) ==
    CASE x = 0      -> -11513
      [] x = 1      -> 0
      [] x = 20     -> 2996
      [] x = 1000   -> 6908
      [] x = 100000 -> 11513

\* calculateMaintainability(halsteadEffort, cyclomatic, sloc): the digits of
\* MI.toFixed(2), that is the index in hundredths.  With the logarithms in
\* thousandths, (171 - 5.2 * effortLn - 0.23 * cyclomatic - 16.2 * slocLn)
\* is (1710000 - 52 * effortLn - 2300 * cyclomatic - 162 * slocLn) / 10000
calculateMaintainability(halsteadEffort, cyclomatic, sloc) ==
    LET effortLn == LogMilli(halsteadEffort)
        slocLn   == LogMilli(sloc)
        index    == (1710000 - 52 * effortLn - 2300 * cyclomatic - 162 * slocLn) \div 171
    IN  IF index < 0 THEN 0 ELSE index                      \* Math.max(0, ...)

\* an entry left in a map by an earlier pass
StaleRanges == MapSet(EmptyMap, << "z" >>, Range(0, 0, 1, 1))

Call(handler, arg, result) == [handler |-> handler, arg |-> arg, result |-> result]

\* generateDashboardHTML()
generateDashboardHTML(w) ==
    LET Page(metrics) ==
            [threw  |-> metrics.null,                \* metrics.map on null
             rows   |-> Len(metrics.metrics),
             errors |-> metrics.errors,
             panel  |-> TRUE,
             \* the rows with a Refactor button
             offers |-> { metrics.metrics[k].name :
                            k \in { j \in 1..Len(metrics.metrics) :
                                      metrics.metrics[j].complexity > HighComplexity } }]
    IN  IF w.host = NoEditor
        THEN [threw |-> FALSE, rows |-> 0, errors |-> 0, panel |-> TRUE, offers |-> {}]
        ELSE Page(analyzeComplexity(w.lines[w.host], w.report[w.host]))

\* showComplexityDashboard()
showComplexityDashboard(st, w) ==
    IF st.activeEditor = NoEditor \/ Len(w.lines[st.activeEditor]) <= 1
    THEN [threw |-> FALSE, rows |-> 0, errors |-> 1, panel |-> FALSE, offers |-> {}]
    ELSE generateDashboardHTML(w)

UnitInit ==
    /\ now = StartTime
    /\ hostEditor = "a"
    /\ \E lines \in UnitDocuments :
          /\ docLines = [d \in Docs |-> IF d = "a" THEN lines ELSE InitialLines(d)]
          /\ \E r \in UnitReports(lines) :
                report = [d \in Docs |-> IF d = "a" THEN r ELSE EngineMethods(<< >>)]
          /\ \E m \in IF Len(lines) < MinLines - 1 THEN { EmptyMap }
                      ELSE { EmptyMap, StaleRanges } :
                state = [InitialState EXCEPT !.activeEditor = "a", !.complexityRanges = m,
                                             !.functionRanges = m]
    /\ docVersion = [d \in Docs |-> 1]
    /\ stateDocs = NoProvenance
    /\ timers = {}
    /\ pendingEdits = << >>
    /\ ops = {}
    /\ last = Call("none", 0, 0)
    /\ burst = [events |-> 0, passes |-> 0, startedAt |-> 0, changedAt |-> 0]
    /\ dispatchedAt = [click |-> 0, request |-> 0]
    /\ budget = MaxPasses
    /\ files = [workspace |-> TRUE, folder |-> "absent", written |-> {}]
    /\ activated = TRUE

\* detectFunctions(document) on the active document
CallDetect ==
    /\ budget > 0
    /\ \E det \in { detectFunctions(docLines["a"]) } :
          /\ Len(pendingEdits) + (IF Len(det.edits) > 0 THEN 1 ELSE 0) <= MaxPending
          /\ state' = [state EXCEPT !.functionRanges = det.ranges]
          /\ pendingEdits' =
                IF Len(det.edits) > 0
                THEN Append(pendingEdits, [doc |-> "a", version |-> docVersion["a"],
                                           inserts |-> det.edits])
                ELSE pendingEdits
          /\ last' = Call("detectFunctions", state.functionRanges, det)
    /\ budget' = budget - 1
    /\ UNCHANGED << files, activated, stateDocs, timers, now, hostEditor, docLines, docVersion, report, ops,
                    burst, dispatchedAt >>

\* the host takes up the oldest workspace edit, as in ApplyEdit, with no
\* handler listening
HostApplies ==
    /\ Len(pendingEdits) > 0
    /\ \E edit \in { Head(pendingEdits) } :
          IF docVersion[edit.doc] = edit.version
          THEN /\ docLines' = [docLines EXCEPT
                                  ![edit.doc] = ApplyInserts(@, edit.inserts, 1)]
               /\ docVersion' = [docVersion EXCEPT ![edit.doc] = @ + 1]
               /\ last' = Call("applyEdit", edit, TRUE)
          ELSE /\ last' = Call("applyEdit", edit, FALSE)
               /\ UNCHANGED << files, activated, docLines, docVersion >>
    /\ pendingEdits' = Tail(pendingEdits)
    /\ UNCHANGED << files, activated, state, stateDocs, timers, now, hostEditor, report, ops, burst,
                    dispatchedAt, budget >>

\* extractFunctionCode(startLine) on the active document
CallExtract(startLine) ==
    /\ last' = Call("extractFunctionCode", startLine,
                    extractFunctionCode(docLines["a"], startLine))
    /\ UNCHANGED << files, activated, state, stateDocs, timers, now, hostEditor, docLines, docVersion, report,
                    pendingEdits, ops, burst, dispatchedAt, budget >>

\* analyzeComplexity(document) on the active document
CallAnalyze ==
    /\ last' = Call("analyzeComplexity", 0, analyzeComplexity(docLines["a"], report["a"]))
    /\ UNCHANGED << files, activated, state, stateDocs, timers, now, hostEditor, docLines, docVersion, report,
                    pendingEdits, ops, burst, dispatchedAt, budget >>

\* const metrics = analyzeComplexity(document); highlightComplexFunctions(metrics);
CallHighlight ==
    /\ \E c \in { AnalyzeAndHighlight(Context(state, stateDocs, timers), World) } :
          /\ state' = c.state
          /\ stateDocs' = c.docs
          /\ last' = [handler     |-> "highlightComplexFunctions",
                      arg         |-> state.complexityRanges,
                      result      |-> analyzeComplexity(docLines["a"], report["a"]),
                      decorations |-> c.decorations]
    /\ UNCHANGED << files, activated, timers, now, hostEditor, docLines, docVersion, report, pendingEdits,
                    ops, burst, dispatchedAt, budget >>

\* the command extension.showComplexityDashboard
CallDashboard ==
    /\ last' = Call("showComplexityDashboard", 0, showComplexityDashboard(state, World))
    /\ UNCHANGED << files, activated, state, stateDocs, timers, now, hostEditor, docLines, docVersion, report,
                    pendingEdits, ops, burst, dispatchedAt, budget >>

\* ensureTestFolderExists(folderPath) with the path holding `kind`; what the
\* path holds afterwards is part of the result
CallEnsureFolder(kind) ==
    /\ last' = Call("ensureTestFolderExists", kind, ensureTestFolderExists(kind))
    /\ UNCHANGED << files, activated, state, stateDocs, timers, now, hostEditor, docLines,
                    docVersion, report, pendingEdits, ops, burst, dispatchedAt, budget >>

\* calculateMaintainability(halsteadEffort, cyclomatic, sloc)
CallMaintainability(halsteadEffort, cyclomatic, sloc) ==
    /\ last' = Call("calculateMaintainability", << halsteadEffort, cyclomatic, sloc >>,
                    calculateMaintainability(halsteadEffort, cyclomatic, sloc))
    /\ UNCHANGED << files, activated, state, stateDocs, timers, now, hostEditor, docLines,
                    docVersion, report, pendingEdits, ops, burst, dispatchedAt, budget >>

UnitNext ==
    \/ CallDetect
    \/ HostApplies
    \/ \E startLine \in 0..(Len(docLines["a"]) - 1) : CallExtract(startLine)
    \/ CallAnalyze
    \/ CallHighlight
    \/ CallDashboard
    \/ \E kind \in FolderKinds : CallEnsureFolder(kind)
    \/ \E halsteadEffort \in Efforts, cyclomatic \in Cyclomatics, sloc \in Slocs :
          CallMaintainability(halsteadEffort, cyclomatic, sloc)

UnitSpec == UnitInit /\ [][UnitNext]_vars

(***************************************************************************)
(* The statements checked.  A handler's observation is in `last` from the  *)
(* moment it returns until the host is back in its event loop.             *)
(***************************************************************************)
\* the observation in `last` is of a document-change event
IsChangeEvent == {"document", "contentChanges"} \subseteq DOMAIN last.event

\* the event was for the active document, so the handler did not return early
ForActiveDocument ==
    /\ IsChangeEvent
    /\ state.activeEditor # NoEditor
    /\ last.event.document = state.activeEditor

\* text begins, after optional blanks, with //
BeginsWithSlashes(text) ==
    \E k \in 1..(Len(text) - 1) :
        /\ text[k] = "/"
        /\ text[k + 1] = "/"
        /\ \A j \in 1..(k - 1) : IsSpace(text[j])

\* at least one content change whose text does not begin with //
HasCodeChange(contentChanges) ==
    \E k \in 1..Len(contentChanges) : ~BeginsWithSlashes(contentChanges[k].text)

\* the operations the handler observed in `last` started
Started == { last.dispatched[k] : k \in 1..Len(last.dispatched) }

\* the observation in `last` is of a selection event
IsSelectionEvent == last.handler = "selectionChange"

\* the primary selection of the selection event in `last`
Caret == last.event.selections[1]

\* the trimmed length of the line the caret of the selection event is on
CaretLineLength == Len(Trim(docLines[last.event.textEditor][Caret.line + 1]))

\* C1: after the active-editor-change handler completes, whatever the new
\* editor is, functionRanges and complexityRanges hold no entry that was
\* computed from another document than the new editor's.
C1_MapsInvalidatedOnEditorChange ==
    last.handler = "editorChange" =>
        /\ state.functionRanges # EmptyMap =>
                stateDocs.functionRanges = last.event.editor
        /\ state.complexityRanges # EmptyMap =>
                stateDocs.complexityRanges = last.event.editor

\* C2: in a burst of two or more significant change events for the active
\* document, each less than 2000 ms after the one before, fewer detection
\* passes run than there are events.
C2_BurstCollapsed ==
    burst.events >= 2 => burst.passes < burst.events

\* C3: while less than 2000 ms have passed since the last change event
\* handled for the active document, isEditingFunction is true: a timer
\* started by an earlier change does not end the Editing state early.
C3_EditingUntilQuiet ==
    (burst.changedAt > 0 /\ now - burst.changedAt < EditingDelay)
        => state.isEditingFunction

\* the timer of the first change of the window would be due, a later change
\* restarted the period, and the session is still Editing
C3_Restarted ==
    /\ burst.startedAt > 0
    /\ now - burst.startedAt >= EditingDelay
    /\ now - burst.changedAt < EditingDelay
    /\ state.isEditingFunction

\* C4 (as amended): a change event for the active document marks the session
\* Editing; when that document passes the valid-source predicate, the event
\* runs a detection pass if and only if one of its content changes has text
\* that does not begin, after optional blanks, with //; an event of comment
\* insertions only, or without content changes, runs no pass.
C4_PassIffCodeChange ==
    ForActiveDocument =>
        /\ state.isEditingFunction
        /\ isValidSourceFile(last.event.document) =>
                (last.passes > 0 <=> HasCodeChange(last.event.contentChanges))
        /\ ~HasCodeChange(last.event.contentChanges) => last.passes = 0

\* a batch of a comment insertion and a code change ran a pass on a valid document
C4_MixedBatchRanPass ==
    /\ ForActiveDocument
    /\ isValidSourceFile(last.event.document)
    /\ Len(last.event.contentChanges) = 2
    /\ BeginsWithSlashes(last.event.contentChanges[1].text)
    /\ last.passes > 0

\* C4 (as stated): a change event for the active document, whatever the
\* document, runs a pass if and only if one of its content changes has text
\* that does not begin with //.
C4_PassIffCodeChangeAnyDocument ==
    ForActiveDocument =>
        (last.passes > 0 <=> HasCodeChange(last.event.contentChanges))

\* C5: a selection event starts single-function test generation only if the
\* primary selection is an empty caret in the active editor, the session was
\* not Editing, the caret's line is the declaration line of a function in
\* functionRanges as rebuilt during this event, the caret column is 5 or 6
\* past the trimmed length of the line, and more than 2000 ms have passed
\* since lastClickTime.
C5_SingleClickConditions ==
    \A x \in Started :
        (IsSelectionEvent /\ x.kind = "single") =>
            /\ Caret.isEmpty
            /\ last.event.textEditor = state.activeEditor
            /\ ~last.was.isEditingFunction
            /\ last.passes > 0
            /\ stateDocs.functionRanges = last.event.textEditor
            /\ \E k \in 1..Len(state.functionRanges) :
                    state.functionRanges[k].value.sl = Caret.line
            /\ Caret.character \in { CaretLineLength + 5, CaretLineLength + 6 }
            /\ now - last.was.lastClickTime > CLICK_DEBOUNCE_TIME

\* C6: a selection event of carets only, whose primary caret is on the last
\* line of the active document at a column between trimmed-length-2 and
\* trimmed-length+1, with at least two functions detected, the session not
\* Editing and the click cooldown elapsed, starts batch test generation.
C6_BatchClickDispatches ==
    ( /\ IsSelectionEvent
      /\ \A k \in 1..Len(last.event.selections) : last.event.selections[k].isEmpty
      /\ last.event.textEditor = state.activeEditor
      /\ Caret.line = Len(docLines[last.event.textEditor]) - 1
      /\ Caret.character >= CaretLineLength - 2
      /\ Caret.character <= CaretLineLength + 1
      /\ MapSize(state.functionRanges) >= 2
      /\ ~last.was.isEditingFunction
      /\ now - last.was.lastClickTime > CLICK_DEBOUNCE_TIME )
        => \E x \in Started : x.kind = "batch"

\* C7 (as amended): after a click has started a generation action, no click
\* starts a generation action during the following 2000 ms.
C7_ClickCooldown ==
    (IsSelectionEvent /\ Started # {}) => last.was.sinceClick > CLICK_DEBOUNCE_TIME

\* a click started a generation action after an earlier click had started one
C7_SecondClickDispatched ==
    /\ IsSelectionEvent
    /\ Started # {}
    /\ last.was.sinceClick < now

\* C7 (as stated): after any generation or refactor action was started with a
\* request, by a click or by a command, no click starts a generation action
\* during the following 2000 ms.
C7_CooldownAfterAnyDispatch ==
    (IsSelectionEvent /\ Started # {}) =>
        /\ last.was.sinceClick > CLICK_DEBOUNCE_TIME
        /\ last.was.sinceRequest > CLICK_DEBOUNCE_TIME

\* C8: no operation waits for a remote answer, to write a file or edit a
\* document afterwards, on behalf of a document that fails the valid-source
\* predicate.
C8_OnlyValidSources ==
    \A op \in ops : isValidSourceFile(op.doc)

\* C9: batch test generation sends a request only when at least two functions
\* are detected in the current text of the document whose tests are generated.
C9_BatchNeedsTwoDetected ==
    \A x \in Started :
        (x.kind = "batch" /\ x.requested) =>
            MapSize(detectFunctions(docLines[x.doc]).ranges) >= 2

\* C10: the refactor operation sends a request only for a name that is a key
\* of complexityRanges when it starts and whose body extraction returns text,
\* it leaves the document as it is itself, and a replace edit is applied only
\* for an operation started for such a name.
C10_RefactorOnlyKnownNames ==
    [][ /\ last'.handler = "handleFunctionRefactoring" =>
            /\ docLines' = docLines
            /\ \A k \in 1..Len(last'.dispatched) :
                    last'.dispatched[k].requested =>
                        /\ last'.dispatched[k].known
                        /\ last'.dispatched[k].code # << >>
            /\ \A op \in ops' \ ops : op.kind = "refactor" /\ op.known
        /\ last'.replaced =>
            \E op \in ops \ ops' : op.kind = "refactor" /\ op.known
      ]_vars

\* the refactor command was run for a name that is no key of complexityRanges,
\* while the map has keys, and no request was sent
C10_UnknownNameRefused ==
    /\ last.handler = "handleFunctionRefactoring"
    /\ state.complexityRanges # EmptyMap
    /\ \E x \in Started : ~x.known /\ ~x.requested

(***************************************************************************)
(* The statements about the functions called on their own (UnitSpec).      *)
(***************************************************************************)
\* the document the functions are called on
UnitDocument == docLines["a"]

IsDetectCall == last.handler = "detectFunctions"

\* the map and the edits the pass in `last` returned
DetectedRanges == last.result.ranges

\* the pass in `last` recorded `name` for the zero-based line i
Recorded(name, i) ==
    \E k \in 1..Len(DetectedRanges) : DetectedRanges[k].key = name /\ DetectedRanges[k].value.sl = i

\* the pass in `last` recorded something for the zero-based line i
RecordedLine(i) == \E k \in 1..Len(DetectedRanges) : DetectedRanges[k].value.sl = i

\* well-formed declarations of the four shapes, and the names they declare
Declarations ==
    { [text |-> lnFunF,           name |-> << "f" >>],
      [text |-> lnFunFOneLine,    name |-> << "f" >>],
      [text |-> lnArrowG,         name |-> << "g" >>],
      [text |-> lnConstFunK,      name |-> << "k" >>],
      [text |-> lnMethodH,        name |-> << "h" >>],
      [text |-> lnIndentedMethod, name |-> << "h" >>] }

\* C11: every range a detection pass puts into functionRanges lies within
\* the document: its line is one of the lines 0..lineCount-1 and its columns
\* are within that line's length.
C11_RangesWithinDocument ==
    IsDetectCall =>
        /\ state.functionRanges = DetectedRanges
        /\ \A k \in 1..Len(DetectedRanges) :
              LET r == DetectedRanges[k].value
              IN  /\ r.sl \in 0..(Len(UnitDocument) - 1)
                  /\ r.el = r.sl
                  /\ 0 <= r.sc /\ r.sc <= r.ec
                  /\ r.ec <= Len(UnitDocument[r.sl + 1])

\* a pass over a document whose declaration line has been padded
C11_PaddedLineDetected ==
    /\ IsDetectCall
    /\ \E k \in 1..Len(DetectedRanges) :
          /\ DetectedRanges[k].value.sl = Len(UnitDocument) - 1
          /\ EndsWith(UnitDocument[DetectedRanges[k].value.sl + 1], placeholder)

\* C12: a detection pass records, for every line that holds a well-formed
\* declaration of one of the four shapes (the method shorthand possibly
\* indented), an entry under the declared name for that line.
C12_DeclarationsRecorded ==
    IsDetectCall =>
        \A i \in 1..Len(UnitDocument) : \A dcl \in Declarations :
            UnitDocument[i] = dcl.text => Recorded(dcl.name, i - 1)

\* C13: a detection pass records no entry for a blank line, for a line whose
\* trimmed text starts with // or /*, and none under a name that stands
\* after a // of its line.
C13_CommentsAndBlanksSkipped ==
    IsDetectCall =>
        \A i \in 1..Len(UnitDocument) :
            LET text         == UnitDocument[i]
                trimmed      == Trim(text)
                commentIndex == IndexOf(text, << "/", "/" >>)
            IN  /\ (trimmed = << >>
                    \/ StartsWith(trimmed, << "/", "/" >>)
                    \/ StartsWith(trimmed, << "/", "*" >>)) => ~RecordedLine(i - 1)
                /\ commentIndex >= 0 =>
                      \A k \in 1..Len(DetectedRanges) :
                          DetectedRanges[k].value.sl = i - 1 =>
                              Includes(SubSeq(text, 1, commentIndex), DetectedRanges[k].key)

\* a pass over a document holding a declaration after a // beside a
\* declaration that is recorded
C13_CommentBesideDeclaration ==
    /\ IsDetectCall
    /\ \E i \in 1..Len(UnitDocument) : UnitDocument[i] = lnMethodAfterComment
    /\ Len(DetectedRanges) = 1

\* C14: a detection pass that follows another with no user edit between them
\* yields the functionRanges the earlier one yielded, whether or not the
\* padding the earlier pass asked for has reached the document.
C14_SecondPassSameRanges ==
    IsDetectCall /\ budget <= MaxPasses - 2 => last.arg = DetectedRanges

\* a second pass over a document the padding has reached in between
C14_SecondPassAfterPadding ==
    /\ IsDetectCall
    /\ budget <= MaxPasses - 2
    /\ Len(DetectedRanges) > 0
    /\ docVersion["a"] > 1
    /\ \E i \in 1..Len(UnitDocument) : EndsWith(UnitDocument[i], placeholder)

IsExtractCall == last.handler = "extractFunctionCode"

\* the characters of the zero-based lines from..to, one after another
Flat(lines, from, to) == JoinLines(SubSeq(lines, from + 1, to + 1))

\* the brace depth after the first k characters of t
Depth(t, k) ==
    Cardinality({ j \in 1..k : t[j] = "{" }) - Cardinality({ j \in 1..k : t[j] = "}" })

\* the depth is back at zero after k characters of t, an opening brace seen
BackAtZero(t, k) == Depth(t, k) = 0 /\ \E j \in 1..k : t[j] = "{"

\* the zero-based lines, from startLine on, within which the depth counted
\* from startLine is back at zero
ZeroLines(lines, startLine) ==
    { l \in startLine..(Len(lines) - 1) :
         \E k \in (Len(Flat(lines, startLine, l)) - Len(lines[l + 1]) + 1)
                  ..Len(Flat(lines, startLine, l)) :
            BackAtZero(Flat(lines, startLine, l), k) }

\* C16: when the depth counted from startLine returns to zero after an
\* opening brace, extract returns the lines from startLine through the first
\* line in which it does, joined by newlines, and nothing past that line.
C16_ExtractThroughFirstZeroLine ==
    IsExtractCall /\ ZeroLines(UnitDocument, last.arg) # {} =>
        last.result = Str(Flat(UnitDocument, last.arg,
                               MinOf(ZeroLines(UnitDocument, last.arg))))

\* the braces from startLine on are unbalanced: one closes with none open,
\* or the depth never returns to zero
Unbalanced(lines, startLine) ==
    LET t == Flat(lines, startLine, Len(lines) - 1)
    IN  \/ \E k \in 1..Len(t) : Depth(t, k) < 0
        \/ \A k \in 1..Len(t) : ~BackAtZero(t, k)

\* C17: if the braces from startLine on are unbalanced, extract returns null.
C17_UnbalancedGivesNull ==
    IsExtractCall /\ Unbalanced(UnitDocument, last.arg) => last.result = Null

IsAnalyzeCall == last.handler = "analyzeComplexity"

\* C18: the analysis of a document with empty text returns null, shows
\* exactly one error message and does not call the engine.
C18_EmptyTextRejected ==
    IsAnalyzeCall /\ JoinLines(UnitDocument) = << >> =>
        /\ last.result.null
        /\ last.result.errors = 1
        /\ last.result.invoked = 0

\* the analysis of an empty document for which the engine would have answered
C18_EmptyDocumentAnalyzed ==
    /\ IsAnalyzeCall
    /\ JoinLines(UnitDocument) = << >>
    /\ report["a"] = EngineMethods(<< >>)

\* the engine throws or answers without a methods list
EngineFails == report["a"].kind \in { "throws", "nomethods" }

\* C19: when the engine throws or returns no methods list, the analysis
\* returns null and its callers complete without an exception.
C19_CallersSurviveFailedAnalysis ==
    /\ IsAnalyzeCall /\ EngineFails /\ JoinLines(UnitDocument) # << >> => last.result.null
    /\ last.handler = "showComplexityDashboard" /\ EngineFails => ~last.result.threw

IsHighlightCall == last.handler = "highlightComplexFunctions"

\* the metrics of the list that have numeric lines and a high complexity
HighMetrics(metrics) ==
    { k \in 1..Len(metrics) :
         /\ metrics[k].lines.start # NaL /\ metrics[k].lines.end # NaL
         /\ metrics[k].complexity > HighComplexity }

\* C20: after a highlight pass over a non-empty metric list on a document of
\* at least 10 lines, complexityRanges holds exactly the names of the valid
\* metrics with complexity > 9, each with the zero-based range from line
\* start-1 to line end-1; nothing of an earlier pass survives.
C20_HighRangesExact ==
    IsHighlightCall /\ Len(UnitDocument) >= MinLines
                    /\ ~last.result.null /\ Len(last.result.metrics) > 0 =>
        LET metrics == last.result.metrics
        IN  /\ MapKeys(state.complexityRanges)
                  = { metrics[k].name : k \in HighMetrics(metrics) }
            /\ \A k \in HighMetrics(metrics) :
                  /\ MapGet(state.complexityRanges, metrics[k].name).sl
                        = metrics[k].lines.start - 1
                  /\ MapGet(state.complexityRanges, metrics[k].name).el
                        = metrics[k].lines.end - 1

\* a pass over a list with a metric at the threshold, on a document of
\* exactly 10 lines whose map held an entry of an earlier pass
C20_ThresholdMetricOverStaleMap ==
    /\ IsHighlightCall
    /\ Len(UnitDocument) = MinLines
    /\ last.arg = StaleRanges
    /\ ~last.result.null
    /\ \E k \in 1..Len(last.result.metrics) :
          last.result.metrics[k].complexity = HighComplexity

\* the names of the decorations the handler in `last` set for a decoration type
DecorationNames(type) ==
    UNION { { last.decorations[i].names[j] : j \in 1..Len(last.decorations[i].names) } :
            i \in { i \in 1..Len(last.decorations) : last.decorations[i].type = type } }

\* the metric has a numeric line start and a numeric line end
NumericLines(metric) == metric.lines.start # NaL /\ metric.lines.end # NaL

\* C21: in a highlight pass over a non-empty metric list on a document of at
\* least 10 lines, an entry without a numeric line start or end gets no
\* decoration and no complexityRanges entry, while every entry of the list
\* with numeric lines gets its complexity decoration and, when its
\* complexity is above 9, its refactor decoration and complexityRanges entry.
C21_InvalidMetricSkipped ==
    IsHighlightCall /\ Len(UnitDocument) >= MinLines
                    /\ ~last.result.null /\ Len(last.result.metrics) > 0 =>
        \A k \in 1..Len(last.result.metrics) :
            LET metric == last.result.metrics[k]
            IN  IF ~NumericLines(metric)
                THEN /\ metric.name \notin DecorationNames("complexity")
                     /\ metric.name \notin DecorationNames("refactor")
                     /\ ~MapHas(state.complexityRanges, metric.name)
                ELSE /\ metric.name \in DecorationNames("complexity")
                     /\ metric.complexity > HighComplexity =>
                           /\ metric.name \in DecorationNames("refactor")
                           /\ MapHas(state.complexityRanges, metric.name)
                           /\ MapGet(state.complexityRanges, metric.name).sl
                                 = metric.lines.start - 1

\* a pass over a list where an entry without numeric lines comes before a
\* valid entry of high complexity, which got its complexityRanges entry
C21_ValidAfterInvalid ==
    /\ IsHighlightCall
    /\ Len(UnitDocument) >= MinLines
    /\ ~last.result.null
    /\ \E i, k \in 1..Len(last.result.metrics) :
          /\ i < k
          /\ ~NumericLines(last.result.metrics[i])
          /\ NumericLines(last.result.metrics[k])
          /\ last.result.metrics[k].complexity > HighComplexity
          /\ MapHas(state.complexityRanges, last.result.metrics[k].name)

\* the handler in `last` called setDecorations for the decoration type
HasDecorations(type) ==
    \E i \in 1..Len(last.decorations) : last.decorations[i].type = type

\* the handler in `last` cleared the decorations of the type
Cleared(type) ==
    \E i \in 1..Len(last.decorations) : last.decorations[i] = SetDecorations(type, << >>)

\* C22: after a handler that ran a decoration update pass on a valid source
\* document, the complexity highlights were computed (complexityRanges is of
\* this document, both decoration kinds were set) if the document has at
\* least 10 lines and the metric list is not empty; otherwise both the
\* complexity decorations and the refactor decorations were cleared.
C22_HighlightsOrCleared ==
    last.passes > 0 /\ state.activeEditor # NoEditor =>
        LET lines   == docLines[state.activeEditor]
            metrics == analyzeComplexity(lines, report[state.activeEditor])
        IN  IF Len(lines) >= MinLines /\ ~metrics.null /\ Len(metrics.metrics) > 0
            THEN /\ stateDocs.complexityRanges = state.activeEditor
                 /\ HasDecorations("complexity")
                 /\ HasDecorations("refactor")
            ELSE /\ Cleared("complexity")
                 /\ Cleared("refactor")

\* the answer in `last` was a failure of the remote call
AnswerFailed(obs) == "ok" \in DOMAIN obs.event /\ ~obs.event.ok

\* C23: an operation whose answer has been handled and which failed (it
\* wrote no test file and replaced nothing) has shown exactly one error
\* message.
C23_OneNotificationPerFailure ==
    last.answered # NoOp /\ ~last.wrote /\ ~last.replaced => last.errors = 1

\* C24: when the remote call of an operation fails, the operation is over
\* without another request, no test file is written, no document is edited
\* and no edit is requested.
C24_FailedRequestLeavesNoTrace ==
    [][ \A op \in ops :
            last = Idle /\ last'.answered = op /\ AnswerFailed(last') =>
                /\ ops' = ops \ {op}
                /\ files' = files
                /\ docLines' = docLines
                /\ docVersion' = docVersion
                /\ pendingEdits' = pendingEdits
                /\ ~last'.wrote
                /\ ~last'.replaced ]_vars

\* the request of a generation failed in a workspace where the test file
\* could have been written
C24_GenerationFailed ==
    /\ last.answered # NoOp
    /\ last.answered.kind \in { "single", "batch" }
    /\ AnswerFailed(last)
    /\ files.workspace
    /\ files.folder = "absent"

IsFolderCall == last.handler = "ensureTestFolderExists"

\* the path holds a directory, reached directly or through a symbolic link
IsDirectory(kind) == kind \in { "directory", "linkedDirectory" }

\* C25: ensureTestFolderExists succeeds and leaves the path as it is when the
\* path is a directory; creates the directory and succeeds when the path does
\* not exist; fails and creates nothing when the path exists and is not a
\* directory; throws the error of stat unchanged when stat fails for another
\* reason; and whenever it succeeds the path is a directory afterwards.
C25_FolderCases ==
    IsFolderCall =>
        /\ IsDirectory(last.arg) =>
              last.result.ok /\ last.result.folder = last.arg
        /\ last.arg = "absent" =>
              last.result.ok /\ last.result.folder = "directory"
        /\ last.arg = "file" =>
              ~last.result.ok /\ last.result.folder = last.arg
        /\ last.arg = "denied" =>
              ~last.result.ok /\ last.result.error = "stat" /\ last.result.folder = last.arg
        /\ last.result.ok => IsDirectory(last.result.folder)

\* the state a first activation would give in the present window
Fresh == activate(Context(InitialState, NoProvenance, {}), World).state

\* C26: after deactivate both maps are empty and no timer is pending; after
\* an activate the two maps, isEditingFunction, lastClickTime and
\* lastProcessedVersion are what a first activation gives them.
C26_SessionReset ==
    /\ last.handler = "deactivate" =>
          /\ state.functionRanges = EmptyMap
          /\ state.complexityRanges = EmptyMap
          /\ timers = {}
    /\ last.handler = "activate" =>
          /\ state.functionRanges = Fresh.functionRanges
          /\ state.complexityRanges = Fresh.complexityRanges
          /\ state.isEditingFunction = Fresh.isEditingFunction
          /\ state.lastClickTime = Fresh.lastClickTime
          /\ state.lastProcessedVersion = Fresh.lastProcessedVersion

\* C27: a refactor command whose cancellation is requested before the check
\* sends no request and changes no document; an operation cancelled after
\* its request was sent still applies the replace edit, with the range it
\* holds, when the answer arrives.
C27_CancellationOnlyBeforeCheck ==
    [][ /\ last = Idle /\ last'.handler = "handleFunctionRefactoring"
                       /\ last'.event.cancelled =>
              /\ ops' = ops
              /\ docLines' = docLines
              /\ \A k \in 1..Len(last'.dispatched) : ~last'.dispatched[k].requested
        /\ \A op \in ops :
              last = Idle /\ op.cancelled /\ last'.answered = op /\ ~AnswerFailed(last') =>
                  /\ last'.replaced
                  /\ docLines'[op.doc]
                        = ReplaceRange(docLines[op.doc], op.range, refactoredResult) ]_vars

\* the answer of an operation that was cancelled after its request has been
\* applied
C27_AppliedAfterCancel ==
    /\ last.replaced
    /\ last.answered # NoOp
    /\ last.answered.cancelled

\* a refactor command for a known name, cancelled before the check
C27_CancelledBeforeCheck ==
    /\ last.handler = "handleFunctionRefactoring"
    /\ last.event.cancelled
    /\ Len(last.dispatched) > 0
    /\ last.dispatched[1].known

\* C28: when the document of a refactor operation has changed since the
\* request, the answer is applied all the same: the text of the range the
\* operation holds is replaced in the document as it is now.
C28_AnswerAppliedToEditedDocument ==
    [][ \A op \in ops :
            /\ last = Idle
            /\ op.kind = "refactor"
            /\ docVersion[op.doc] # op.version
            /\ last'.answered = op
            /\ ~AnswerFailed(last')
            => /\ last'.replaced
               /\ docVersion'[op.doc] = docVersion[op.doc] + 1
               /\ docLines'[op.doc]
                     = ReplaceRange(docLines[op.doc], op.range, refactoredResult) ]_vars

\* an answer was applied to a document that had changed since the request
C28_AppliedAfterEdit ==
    /\ last.replaced
    /\ last.answered # NoOp
    /\ docVersion[last.answered.doc] > last.answered.version + 1

IsMaintainabilityCall == last.handler = "calculateMaintainability"

\* C29: for all non-negative inputs calculateMaintainability returns a value
\* from 0 to 100 (0 to 10000 hundredths), and for the inputs 0, 0, 0 a value
\* that is 100 to within one unit.
C29_IndexWithinRange ==
    IsMaintainabilityCall =>
        /\ last.result >= 0
        /\ last.result <= 10000
        /\ last.arg = << 0, 0, 0 >> => last.result >= 9900

\* the text is one of the well-formed declarations of `name`, at the margin
DeclaresAtMargin(text, name) ==
    /\ text # << >>
    /\ text[1] # SP
    /\ \E decl \in Declarations : decl.name = name /\ decl.text = Trim(text)

\* C30: after a detection pass functionRanges is the map the pass built: it
\* has one entry for a name, every entry is for a line of the current
\* document that defines the entry's name (nothing the map held before
\* survives), and for a name declared at the margin on several lines the
\* entry is for the last of these lines.
C30_RebuiltWithLaterLine ==
    IsDetectCall =>
        /\ state.functionRanges = DetectedRanges
        /\ \A i, k \in 1..Len(DetectedRanges) :
              i # k => DetectedRanges[i].key # DetectedRanges[k].key
        /\ \A k \in 1..Len(DetectedRanges) :
              /\ DetectedRanges[k].value.sl < Len(UnitDocument)
              /\ findFunctionDefinition(UnitDocument[DetectedRanges[k].value.sl + 1]).found
              /\ findFunctionDefinition(UnitDocument[DetectedRanges[k].value.sl + 1]).name
                    = DetectedRanges[k].key
        /\ \A i \in 0..(Len(UnitDocument) - 1), k \in 1..Len(DetectedRanges) :
              DeclaresAtMargin(UnitDocument[i + 1], DetectedRanges[k].key) =>
                  DetectedRanges[k].value.sl >= i

\* a pass over a document that declares one name on two lines, run when the
\* map still held the entries of an earlier pass
C30_SameNameOnTwoLines ==
    /\ IsDetectCall
    /\ Len(last.arg) > 0
    /\ \E i, j \in 0..(Len(UnitDocument) - 1) :
       \E name \in MapKeys(DetectedRanges) :
          /\ i < j
          /\ DeclaresAtMargin(UnitDocument[i + 1], name)
          /\ DeclaresAtMargin(UnitDocument[j + 1], name)
          /\ Recorded(name, j)

\* a pass over a long document, run when the map held an entry for a name the
\* document does not declare
C30_StaleEntryDropped ==
    /\ IsDetectCall
    /\ last.arg = StaleRanges
    /\ Len(DetectedRanges) > 0

\* a document-change event for the active document has just been handled
ActiveDocumentChanged ==
    /\ {"document", "contentChanges"} \subseteq DOMAIN last'.event
    /\ state.activeEditor # NoEditor
    /\ last'.event.document = state.activeEditor

\* C31: whenever isEditingFunction is true it becomes false again, once
\* change events for the active document have stopped; it falls only when
\* the pending timer fires, and rises only with a change event for the
\* active document.
C31_EditingEnds ==
    /\ state.isEditingFunction ~> ~state.isEditingFunction
    /\ [][ state.isEditingFunction /\ ~state'.isEditingFunction
              => \E due \in timers : now >= due /\ timers' = timers \ {due} ]_vars
    /\ [][ ~state.isEditingFunction /\ state'.isEditingFunction
              => ActiveDocumentChanged ]_vars

\* the timer of an edit has fired and no change event has arrived since
C31_TimerFiredAfterEditing ==
    /\ ~state.isEditingFunction
    /\ state.editingTimeout # 0
    /\ timers = {}
    /\ last = Idle

\* C32: a handler sets lastClickTime to the current time if it is the
\* selection handler and it dispatched a generation action, and leaves
\* lastClickTime as it was in every other case.
C32_ClickTimeOnlyOnDispatch ==
    "lastClickTime" \in DOMAIN last.was =>
        IF last.handler = "selectionChange" /\ Len(last.dispatched) > 0
        THEN state.lastClickTime = now
        ELSE state.lastClickTime = last.was.lastClickTime

C34_BatchButtonForEligible ==
    state.batchShown <=>
        /\ state.activeEditor # NoEditor
        /\ isValidSourceFile(state.activeEditor)
        /\ stateDocs.functionRanges = state.activeEditor
        /\ MapSize(state.functionRanges) >= 2

\* the metric of the dashboard's document that carries `name`
MetricNamed(name) ==
    LET metrics == analyzeComplexity(docLines["a"], report["a"]).metrics
    IN  metrics[CHOOSE k \in 1..Len(metrics) : metrics[k].name = name]

\* C35: when the dashboard has been built for the active document (analysed
\* by a pass before, if passes analyse it), every function it offers a
\* Refactor action for is a key of complexityRanges, with the range of that
\* function in the document.
C35_OfferedRefactorResolvable ==
    ( /\ last.handler = "showComplexityDashboard"
      /\ (Len(docLines["a"]) > MinLines => stateDocs.complexityRanges = "a") )
    => \A name \in last.result.offers :
          /\ MapHas(state.complexityRanges, name)
          /\ MapGet(state.complexityRanges, name).sl = MetricNamed(name).lines.start - 1
          /\ MapGet(state.complexityRanges, name).el = MetricNamed(name).lines.end - 1

\* C36: when the answer of a refactor operation is applied to a document
\* that has not changed since the request, the function body was extracted
\* from that document, and the lines of the replaced range are the lines
\* that were sent.
C36_ReplacedRangeIsExtracted ==
    [][ \A op \in ops :
            /\ last = Idle
            /\ op.kind = "refactor"
            /\ docVersion[op.doc] = op.version
            /\ last'.answered = op
            /\ last'.replaced
            => /\ op.source = op.doc
               /\ op.range.el < Len(docLines[op.doc])
               /\ JoinLines(SubSeq(docLines[op.doc], op.range.sl + 1, op.range.el + 1))
                     = op.code ]_vars

\* the observation in `last'` is of an event that does not concern the
\* active editor: a change of another document, a selection in another
\* editor, or a selection that is not empty
ForeignEvent ==
    \/ /\ last'.handler \in { "documentChange", "paddingApplied", "refactorAnswer" }
       /\ {"document", "contentChanges"} \subseteq DOMAIN last'.event
       /\ last'.event.document # state.activeEditor
    \/ /\ last'.handler = "selectionChange"
       /\ \/ last'.event.textEditor # state.activeEditor
          \/ ~last'.event.selections[1].isEmpty

\* C37: an event that does not concern the active editor leaves the session
\* state (both maps, isEditingFunction, lastClickTime, lastProcessedVersion),
\* and the timer as they are, requests no edit, starts no operation and runs
\* no pass.
C37_ForeignEventsIgnored ==
    [][ last = Idle /\ ForeignEvent =>
            /\ state' = state
            /\ timers' = timers
            /\ last'.edits = 0
            /\ ops' \subseteq ops
            /\ last'.dispatched = << >>
            /\ last'.passes = 0 ]_vars

\* a change of a document other than the active one was delivered while the
\* session was Editing
C37_OtherDocumentChanged ==
    /\ IsChangeEvent
    /\ last.handler = "documentChange"
    /\ state.activeEditor # NoEditor
    /\ last.event.document # state.activeEditor
    /\ state.isEditingFunction

\* a selection that is not empty was delivered for the active editor
C37_RangeSelected ==
    /\ last.handler = "selectionChange"
    /\ last.event.textEditor = state.activeEditor
    /\ ~last.event.selections[1].isEmpty

\* C38: in every state at most one quiet-period timer is pending, and
\* isEditingFunction is true if and only if one is pending.
C38_OneTimerWhileEditing ==
    /\ Cardinality(timers) <= 1
    /\ state.isEditingFunction <=> timers # {}

\* a second change event for the active document, later than the first and
\* before its timer fired, left one timer pending
C38_TimerRestarted ==
    /\ ForActiveDocument
    /\ last.was.isEditingFunction
    /\ now > burst.startedAt
    /\ burst.startedAt > 0
    /\ timers = { now + EditingDelay }

=============================================================================
